---- MODULE Spec2Model ----
(***************************************************************************)
(* Shift resolution of the workshift_sensor integration.                   *)
(*                                                                         *)
(* Time is counted in whole hours of local wall-clock time: instant t lies *)
(* on calendar date t \div 24, and date d at hour h is the instant         *)
(* d * 24 + h.  All datetimes of schedule.py carry the same tzinfo         *)
(* (self.tz), so their arithmetic and comparison are wall-clock ones.      *)
(***************************************************************************)
EXTENDS Integers, Sequences, FiniteSets, TLC

VARIABLES
  shift_duration,      \* WorkshiftSchedule.shift_duration (hours)
  pattern,             \* WorkshiftSchedule._pattern, a sequence of characters
  start_times,         \* WorkshiftSchedule._start_times, hours of day
  base_date,           \* WorkshiftSchedule._base_date
  manual_days_off,     \* WorkshiftSchedule._manual_days_off, <<start, end>> pairs
  use_workday_sensor,  \* WorkshiftSchedule._use_workday_sensor
  workday_today,       \* WorkshiftSchedule._workday_today (entity id)
  workday_tomorrow,    \* WorkshiftSchedule._workday_tomorrow (entity id)
  hass_states,         \* hass.states: entity id -> state string
  hass_attributes,     \* hass.states: entity id -> forecast attributes
  now,                 \* the host's wall clock, dt_util.now()
  call,                \* the resolver call in progress and what it returned
  added,               \* adapter -> the entity is added to the host
  timers,              \* the host's pending one-shot timers, by owner
  timer_cancel,        \* adapter -> the cancel handle it keeps
  subscriptions,       \* the host's state-change subscriptions, by owner
  attr_is_on,          \* WorkshiftActiveSensor._attr_is_on
  attr_native_value,   \* WorkshiftDaySensor: native value and attributes
  attr_event,          \* WorkshiftCalendarEntity._attr_event
  last_refresh,        \* the handler that ran at the current instant
  flow,                \* the configuration flow in progress: step and _data
  config_entry,        \* the entry created last: its data under its options
  language,            \* hass.config.language, a sequence of subtags
  translations,        \* translations/<lang>.json of the package
  runtime,             \* hass.data[DOMAIN][entry_id]: WorkshiftRuntimeData
  listeners,           \* WorkshiftRuntimeData.listeners, entities' callbacks
  notified,            \* the callbacks the last update called, in order
  late                 \* the clock reads the last 5 seconds of the hour

vars == <<shift_duration, pattern, start_times, base_date, manual_days_off,
          use_workday_sensor, workday_today, workday_tomorrow, hass_states,
          hass_attributes, now, call, added, timers, timer_cancel,
          subscriptions, attr_is_on, attr_native_value, attr_event,
          last_refresh, flow, config_entry, language, translations,
          runtime, listeners, notified, late>>

config_vars == <<shift_duration, pattern, start_times, base_date,
                 manual_days_off, use_workday_sensor, workday_today,
                 workday_tomorrow>>

host_vars == <<hass_states, hass_attributes, now>>

adapter_vars == <<added, timers, timer_cancel, subscriptions, attr_is_on,
                  attr_native_value, attr_event, last_refresh>>

setup_vars == <<flow, config_entry, language, translations>>

entry_vars == <<runtime, listeners, notified, late>>

----------------------------------------------------------------------------
(* Bounds of the model.                                                    *)

MaxDay == 3

MaxPatternLen == 2

MaxPending == 2

(* Program constants.                                                      *)

HoursPerDay == 24

DefaultSearchDays == 90

DefaultShiftDuration == 8

----------------------------------------------------------------------------
(* Calendar arithmetic.                                                    *)

Days == 0..MaxDay

Instants == 0..((MaxDay + 1) * HoursPerDay - 1)

\* datetime.date(): the calendar date of an instant.
DateOf(t) == t \div HoursPerDay

\* datetime.combine(day, time, tz)
Combine(day, hour) == day * HoursPerDay + hour

----------------------------------------------------------------------------
(* Values.                                                                 *)

\* Python's None for an entity id and for a state object.
NoEntity == "None"

NoState == "None"

NoIndex == -1

\* No timer: a cancel handle that is None, a target that is None.
NoTimer == -1

\* A forecast attribute that is absent or not a bool.
NoForecast == "None"

\* get_shift returning None.
NoShift ==
  [some |-> FALSE, raised |-> FALSE, code |-> 0, start |-> 0, end |-> 0,
   rotation_index |-> NoIndex]

\* ShiftInstance(code, start, end, rotation_index)
ShiftInstance(code, start, end, rotation_index) ==
  [some |-> TRUE, raised |-> FALSE, code |-> code, start |-> start,
   end |-> end, rotation_index |-> rotation_index]

\* A dict without keys: a flow's _data before the first step, and the
\* registry before an entry is created.
NoData == [key \in {} |-> 0]

NoEntry == NoData

NoError == "none"

\* No configuration flow is in progress.
NoFlow ==
  [handler |-> "none", step_id |-> "none", data |-> NoData,
   errors |-> NoError, accepted |-> <<>>, config_entry |-> NoEntry]

\* _load_shift_label returns None.
NoLabel == "None"

\* translations/<lang>.json as _load_shift_label finds it: the file exists
\* or not, it is readable JSON or not, and the text of its shift_label.
TranslationFile(exists, valid, shift_label) ==
  [exists |-> exists, valid |-> valid, shift_label |-> shift_label]

LanguageFiles == {"en", "pl", "de"}

\* No wizard runs, no entry is registered, the host speaks English and the
\* package ships no translation.
SetupAbsent ==
  /\ flow = NoFlow
  /\ config_entry = NoEntry
  /\ language = <<"en">>
  /\ translations =
       [lang \in LanguageFiles |-> TranslationFile(FALSE, FALSE, "")]

\* The entry is not loaded: hass.data holds no runtime data for it.
NoRuntime ==
  [loaded |-> FALSE, config |-> NoEntry, today_shift |-> NoShift,
   tomorrow_shift |-> NoShift, current_shift |-> NoShift,
   today_is_workday |-> TRUE, tomorrow_is_workday |-> TRUE]

\* No entry is loaded and the clock reads the start of its hour.
EntryAbsent ==
  /\ runtime = NoRuntime
  /\ listeners = <<>>
  /\ notified = <<>>
  /\ late = FALSE

\* A call that ended in an uncaught exception.
Raised ==
  [some |-> FALSE, raised |-> TRUE, code |-> 0, start |-> 0, end |-> 0,
   rotation_index |-> NoIndex]

\* int(ch) succeeds exactly on a digit character.
IsDigit(ch) == ch \in {"0", "1", "2", "3", "4", "5", "6", "7", "8", "9"}

\* int(ch) of a digit character.
IntOf(ch) ==
  CASE ch = "0" -> 0 [] ch = "1" -> 1 [] ch = "2" -> 2 [] ch = "3" -> 3
    [] ch = "4" -> 4 [] ch = "5" -> 5 [] ch = "6" -> 6 [] ch = "7" -> 7
    [] ch = "8" -> 8 [] ch = "9" -> 9

\* str.lower() on the state strings the model uses.
Lower(s) ==
  CASE s = "Off" -> "off" [] s = "OFF" -> "off" [] s = "On" -> "on"
    [] OTHER -> s

----------------------------------------------------------------------------
(* schedule.py: WorkshiftSchedule                                          *)

\* _parse_manual_days_off: an unparseable entry is skipped, a missing end is
\* the start, and swapped bounds are put in order.
BadDate == -1

NoEnd == -2

RECURSIVE _parse_manual_days_off(_)
\* A plausible slip: the bounds kept in the order they were given.
_parse_manual_days_off_unordered(entries) ==
  IF entries = <<>> THEN <<>>
  ELSE LET entry == Head(entries)
           start == entry[1]
           end   == IF entry[2] = NoEnd THEN start ELSE entry[2]
           rest  == _parse_manual_days_off(Tail(entries))
       IN IF start = BadDate \/ end = BadDate THEN rest
          ELSE <<(<<start, end>>)>> \o rest

_parse_manual_days_off(entries) ==
  IF entries = <<>> THEN <<>>
  ELSE LET entry == Head(entries)
           start == entry[1]
           end   == IF entry[2] = NoEnd THEN start ELSE entry[2]
           rest  == _parse_manual_days_off(Tail(entries))
       IN IF start = BadDate \/ end = BadDate THEN rest
          ELSE IF end < start THEN <<(<<end, start>>)>> \o rest
          ELSE <<(<<start, end>>)>> \o rest

\* A plausible slip: the end of a range taken as exclusive.
_is_manual_day_off_open_end(day) ==
  \E i \in 1..Len(manual_days_off) :
     manual_days_off[i][1] <= day /\ day < manual_days_off[i][2]

_is_manual_day_off(day) ==
  \E i \in 1..Len(manual_days_off) :
     manual_days_off[i][1] <= day /\ day <= manual_days_off[i][2]

\* A plausible slip: today's entity consulted for tomorrow as well, whatever
\* entity is configured for tomorrow.
_workday_allowed_today_entity(day) ==
  IF ~use_workday_sensor THEN TRUE
  ELSE LET today == DateOf(now)
           entity_id == IF day = today THEN workday_today
                        ELSE IF day = today + 1 THEN workday_today
                        ELSE NoEntity
       IN IF entity_id = NoEntity THEN TRUE
          ELSE IF hass_states[entity_id] = NoState THEN TRUE
          ELSE Lower(hass_states[entity_id]) # "off"

_workday_allowed(day) ==
  IF ~use_workday_sensor THEN TRUE
  ELSE LET today == DateOf(now)
           entity_id == IF day = today THEN workday_today
                        ELSE IF day = today + 1 THEN workday_tomorrow
                        ELSE NoEntity
       IN IF entity_id = NoEntity THEN TRUE
          ELSE IF hass_states[entity_id] = NoState THEN TRUE
          ELSE Lower(hass_states[entity_id]) # "off"

\* A plausible slip: the day offset clamped to the last pattern position
\* instead of wrapped around.
_get_schedule_code_clamped(day) ==
  IF _is_manual_day_off(day) THEN [code |-> 0, idx |-> NoIndex]
  ELSE IF pattern = <<>> THEN [code |-> 0, idx |-> NoIndex]
  ELSE LET diff == day - base_date IN
    IF diff < 0 THEN [code |-> 0, idx |-> NoIndex]
    ELSE LET idx == IF diff < Len(pattern) THEN diff ELSE Len(pattern) - 1 IN
      IF ~IsDigit(pattern[idx + 1]) THEN [code |-> 0, idx |-> NoIndex]
      ELSE IF ~_workday_allowed(day) THEN [code |-> 0, idx |-> idx]
      ELSE [code |-> IntOf(pattern[idx + 1]), idx |-> idx]

\* Returns the pair (code, rotation_index) as a record.
_get_schedule_code(day) ==
  IF _is_manual_day_off(day) THEN [code |-> 0, idx |-> NoIndex]
  ELSE IF pattern = <<>> THEN [code |-> 0, idx |-> NoIndex]
  ELSE LET diff == day - base_date IN
    IF diff < 0 THEN [code |-> 0, idx |-> NoIndex]
    ELSE LET idx == diff % Len(pattern) IN
      IF ~IsDigit(pattern[idx + 1]) THEN [code |-> 0, idx |-> NoIndex]
      ELSE IF ~_workday_allowed(day) THEN [code |-> 0, idx |-> idx]
      ELSE [code |-> IntOf(pattern[idx + 1]), idx |-> idx]

\* A plausible slip: the start time of the first shift used for every code.
get_shift_first_start(day) ==
  LET sc == _get_schedule_code(day)
      idx == sc.code - 1
  IN IF sc.code = 0 THEN NoShift
     ELSE IF idx < 0 \/ idx >= Len(start_times) THEN NoShift
     ELSE LET start_dt == Combine(day, start_times[1])
              end_dt == start_dt + shift_duration
          IN ShiftInstance(sc.code, start_dt, end_dt, sc.idx)

\* A plausible slip: the default duration used instead of the configured one.
get_shift_default_duration(day) ==
  LET sc == _get_schedule_code(day)
      idx == sc.code - 1
  IN IF sc.code = 0 THEN NoShift
     ELSE IF idx < 0 \/ idx >= Len(start_times) THEN NoShift
     ELSE LET start_dt == Combine(day, start_times[idx + 1])
              end_dt == start_dt + DefaultShiftDuration
          IN ShiftInstance(sc.code, start_dt, end_dt, sc.idx)

get_shift(day) ==
  LET sc == _get_schedule_code(day)
      idx == sc.code - 1
  IN IF sc.code = 0 THEN NoShift
     ELSE IF idx < 0 \/ idx >= Len(start_times) THEN NoShift
     ELSE LET start_dt == Combine(day, start_times[idx + 1])
              end_dt == start_dt + shift_duration
          IN ShiftInstance(sc.code, start_dt, end_dt, sc.idx)

\* A plausible slip: the end instant counted as covered.
shift_covering_closed_end(moment) ==
  LET localized == moment
      day == DateOf(localized)
      today_shift == get_shift(day)
      yesterday_shift == get_shift(day - 1)
  IN IF today_shift.some /\ today_shift.start <= localized
                         /\ localized <= today_shift.end
     THEN today_shift
     ELSE IF yesterday_shift.some /\ yesterday_shift.start <= localized
                                  /\ localized <= yesterday_shift.end
     THEN yesterday_shift
     ELSE NoShift

\* A plausible slip: no look back at the previous date.
shift_covering_today_only(moment) ==
  LET localized == moment
      day == DateOf(localized)
      today_shift == get_shift(day)
  IN IF today_shift.some /\ today_shift.start <= localized
                         /\ localized < today_shift.end
     THEN today_shift
     ELSE NoShift

shift_covering(moment) ==
  LET localized == moment
      day == DateOf(localized)
      today_shift == get_shift(day)
      yesterday_shift == get_shift(day - 1)
  IN IF today_shift.some /\ today_shift.start <= localized
                         /\ localized < today_shift.end
     THEN today_shift
     ELSE IF yesterday_shift.some /\ yesterday_shift.start <= localized
                                  /\ localized < yesterday_shift.end
     THEN yesterday_shift
     ELSE NoShift

\* The loop of next_shift_after from `offset` on; lookups counts the calls of
\* get_shift made so far.
RECURSIVE next_shift_scan(_, _, _, _)
next_shift_scan(localized, start_day, offset, search_days) ==
  IF offset >= search_days THEN [result |-> NoShift, lookups |-> offset]
  ELSE LET shift == get_shift(start_day + offset) IN
    IF shift.some /\ shift.end > localized
    THEN [result |-> shift, lookups |-> offset + 1]
    ELSE next_shift_scan(localized, start_day, offset + 1, search_days)

\* A plausible slip: the scan started on the day after the moment.
next_shift_after_from_tomorrow(moment, search_days) ==
  next_shift_scan(moment, DateOf(moment) + 1, 0, search_days)

\* A plausible slip: one date more than search_days scanned.
next_shift_after_one_more(moment, search_days) ==
  next_shift_scan(moment, DateOf(moment), 0, search_days + 1)

next_shift_after(moment, search_days) ==
  next_shift_scan(moment, DateOf(moment), 0, search_days)

----------------------------------------------------------------------------
(* const.py: WorkshiftSchedule over WorkshiftConfigData, the resolver of   *)
(* the entry-level scheduler.  It reads the same configuration:            *)
(* schedule_string is pattern, schedule_start_date is base_date,           *)
(* shift_starts is start_times and shift_hours is shift_duration.          *)

\* __init__.py _parse_shift_starts: one start per shift, strictly ascending.
\* The entry is set up only when this parse succeeds.
shifts_per_day == Len(start_times)

_parse_shift_starts_ok ==
  \A i \in 1..(Len(start_times) - 1) : start_times[i] < start_times[i + 1]

\* Python's % with a positive modulus: the result is never negative.
_index_for_date(target_date) == (target_date - base_date) % Len(pattern)

get_shift_info(target_date) ==
  IF pattern = <<>> THEN Raised                        \* ZeroDivisionError
  ELSE LET index == _index_for_date(target_date) IN
    IF ~IsDigit(pattern[index + 1]) THEN Raised        \* ValueError
    ELSE LET shift_code == IntOf(pattern[index + 1]) IN
      IF shift_code <= 0 THEN NoShift
      ELSE IF shift_code > shifts_per_day THEN NoShift
      ELSE LET start_dt == Combine(target_date, start_times[shift_code])
               end_dt == start_dt + shift_duration
           IN ShiftInstance(shift_code, start_dt, end_dt, NoIndex)

----------------------------------------------------------------------------
(* sensor.py: WorkshiftDaySensor.  It reads the same configuration dict as *)
(* WorkshiftSchedule.  The host's default time zone object is taken to     *)
(* offer localize(), so that the start and end instants are computed.      *)

\* A plausible slip: the tomorrow entity consulted for every later date.
WorkshiftDaySensor_get_schedule_code_later(day) ==
  IF _is_manual_day_off(day) THEN 0
  ELSE IF pattern = <<>> THEN 0
  ELSE LET diff == day - base_date IN
    IF diff < 0 THEN 0
    ELSE LET ch == pattern[(diff % Len(pattern)) + 1] IN
      IF ~IsDigit(ch) THEN 0
      ELSE IF use_workday_sensor
      THEN LET today == DateOf(now)
               entity_id == IF day = today THEN workday_today
                            ELSE IF day > today THEN workday_tomorrow
                            ELSE NoEntity
           IN IF /\ entity_id # NoEntity
                 /\ hass_states[entity_id] # NoState
                 /\ Lower(hass_states[entity_id]) = "off"
              THEN 0
              ELSE IntOf(ch)
      ELSE IntOf(ch)

WorkshiftDaySensor_get_schedule_code(day) ==
  IF _is_manual_day_off(day) THEN 0
  ELSE IF pattern = <<>> THEN 0
  ELSE LET diff == day - base_date IN
    IF diff < 0 THEN 0
    ELSE LET ch == pattern[(diff % Len(pattern)) + 1] IN
      IF ~IsDigit(ch) THEN 0
      ELSE IF use_workday_sensor
      THEN LET today == DateOf(now)
               entity_id == IF day = today THEN workday_today
                            ELSE IF day = today + 1 THEN workday_tomorrow
                            ELSE NoEntity
           IN IF /\ entity_id # NoEntity
                 /\ hass_states[entity_id] # NoState
                 /\ Lower(hass_states[entity_id]) = "off"
              THEN 0
              ELSE IntOf(ch)
      ELSE IntOf(ch)

\* _update_state: the native value with shift_start and shift_end, as an
\* occurrence; value 0 with null attributes is NoShift.
WorkshiftDaySensor_update_state(offset) ==
  LET today == DateOf(now)
      target == today + offset
      code == WorkshiftDaySensor_get_schedule_code(target)
      idx == code - 1
  IN IF code = 0 THEN NoShift
     ELSE IF ~(idx < Len(start_times)) THEN NoShift
     ELSE LET target_start == Combine(target, start_times[idx + 1])
              end_dt == target_start + shift_duration
          IN ShiftInstance(code, target_start, end_dt, NoIndex)

----------------------------------------------------------------------------
(* binary_sensor.py: WorkshiftActiveSensor                                 *)

\* Only today's entity is consulted, and only for the current date.
WorkshiftActiveSensor_get_schedule_code(day) ==
  IF _is_manual_day_off(day) THEN 0
  ELSE IF pattern = <<>> THEN 0
  ELSE LET days_diff == day - base_date IN
    IF days_diff < 0 THEN 0
    ELSE LET ch == pattern[(days_diff % Len(pattern)) + 1] IN
      IF ~IsDigit(ch) THEN 0
      ELSE IF /\ use_workday_sensor
              /\ workday_today # NoEntity
              /\ day = DateOf(now)
              /\ hass_states[workday_today] # NoState
              /\ Lower(hass_states[workday_today]) = "off"
      THEN 0
      ELSE IntOf(ch)

\* The interval the sensor computes for a date: the code, its start time
\* (_get_start_time gives None for an index out of range) and the end.
WorkshiftActiveSensor_interval(day) ==
  LET code == WorkshiftActiveSensor_get_schedule_code(day)
      idx == code - 1
  IN IF code = 0 THEN NoShift
     ELSE IF idx < 0 \/ idx >= Len(start_times) THEN NoShift
     ELSE LET start_dt == Combine(day, start_times[idx + 1])
              end_dt == start_dt + shift_duration
          IN ShiftInstance(code, start_dt, end_dt, NoIndex)

\* A plausible slip: no look back at the shift that started yesterday.
_is_shift_active_now_today_only ==
  LET today == DateOf(now)
      today_shift == WorkshiftActiveSensor_interval(today)
  IN IF today_shift.some /\ today_shift.start <= now /\ now < today_shift.end
     THEN TRUE
     ELSE FALSE

_is_shift_active_now ==
  LET today == DateOf(now)
      today_shift == WorkshiftActiveSensor_interval(today)
      yesterday_shift == WorkshiftActiveSensor_interval(today - 1)
  IN IF today_shift.some /\ today_shift.start <= now /\ now < today_shift.end
     THEN TRUE
     ELSE IF /\ yesterday_shift.some
             /\ DateOf(yesterday_shift.end) = today
             /\ now < yesterday_shift.end
     THEN TRUE
     ELSE FALSE

\* The loop over the next len(pattern) days: the first start after now.
RECURSIVE _next_start_scan(_)
_next_start_scan(d) ==
  IF d > Len(pattern) THEN NoTimer
  ELSE LET future == WorkshiftActiveSensor_interval(DateOf(now) + d) IN
    IF future.some /\ future.start > now THEN future.start
    ELSE _next_start_scan(d + 1)

\* A plausible slip: the target computed from the state of the previous
\* cycle, not from the one just computed.
_schedule_next_event_stale(is_on) ==
  LET today == DateOf(now)
      today_shift == WorkshiftActiveSensor_interval(today)
      yesterday_shift == WorkshiftActiveSensor_interval(today - 1)
  IN IF attr_is_on
     THEN IF today_shift.some /\ now < today_shift.end THEN today_shift.end
          ELSE IF yesterday_shift.some /\ now < yesterday_shift.end
          THEN yesterday_shift.end
          ELSE NoTimer
     ELSE IF today_shift.some /\ now < today_shift.start
          THEN today_shift.start
          ELSE _next_start_scan(1)

\* The instant _schedule_next_event arms a timer for, NoTimer when it arms
\* none.  The state just computed is passed in.
_schedule_next_event(is_on) ==
  LET today == DateOf(now)
      today_shift == WorkshiftActiveSensor_interval(today)
      yesterday_shift == WorkshiftActiveSensor_interval(today - 1)
  IN IF is_on
     THEN IF today_shift.some /\ now < today_shift.end THEN today_shift.end
          ELSE IF yesterday_shift.some /\ now < yesterday_shift.end
          THEN yesterday_shift.end
          ELSE NoTimer
     ELSE IF today_shift.some /\ now < today_shift.start
          THEN today_shift.start
          ELSE _next_start_scan(1)

----------------------------------------------------------------------------
(* calendar.py: WorkshiftCalendarEntity over WorkshiftSchedule.  The timer *)
(* is armed one second after the target; instants are whole hours, so the  *)
(* clock reads the target's hour when the timer fires.                     *)

\* CalendarEvent(summary, start, end, description): the summary names the
\* code and the description carries the rotation index.
_format_event(shift) ==
  ShiftInstance(shift.code, shift.start, shift.end, shift.rotation_index)

\* A plausible slip: the upcoming shift asked for before the covering one.
_compute_current_event_upcoming_first ==
  LET active_shift == shift_covering(now)
      upcoming_shift == next_shift_after(now, DefaultSearchDays).result
  IN IF upcoming_shift.some THEN _format_event(upcoming_shift)
     ELSE IF active_shift.some THEN _format_event(active_shift)
     ELSE NoShift

_compute_current_event ==
  LET active_shift == shift_covering(now)
      upcoming_shift == next_shift_after(now, DefaultSearchDays).result
  IN IF active_shift.some THEN _format_event(active_shift)
     ELSE IF upcoming_shift.some THEN _format_event(upcoming_shift)
     ELSE NoShift

\* A plausible slip: the start of the event taken while it covers now.
_schedule_refresh_at_start(event) ==
  IF event.some /\ event.start <= now /\ now < event.end THEN event.start
  ELSE IF event.some /\ event.start > now THEN event.start
  ELSE Combine(DateOf(now + HoursPerDay), 0)

\* The target of _schedule_refresh for the published event.
_schedule_refresh(event) ==
  IF event.some /\ event.start <= now /\ now < event.end THEN event.end
  ELSE IF event.some /\ event.start > now THEN event.start
  ELSE Combine(DateOf(now + HoursPerDay), 0)

\* The loop of async_get_events over range(offset, stop): the events of the
\* dates whose occurrence overlaps the range, in date order.
RECURSIVE get_events_scan(_, _, _, _)
get_events_scan(start, end, offset, stop) ==
  IF offset >= stop THEN <<>>
  ELSE LET day == DateOf(start) + offset
           shift == get_shift(day)
           events == IF ~shift.some THEN <<>>
                     ELSE IF shift.end <= start \/ shift.start >= end
                     THEN <<>>
                     ELSE <<_format_event(shift)>>
       IN events \o get_events_scan(start, end, offset + 1, stop)

\* A plausible slip: the scan started on the date of the range's start.
async_get_events_from_start_day(start_date, end_date) ==
  get_events_scan(start_date, end_date, 0,
                  DateOf(end_date) - DateOf(start_date) + 2)

\* async_get_events: the two instants are aware and are given here on the
\* local clock, which is what _ensure_local turns them into.
async_get_events(start_date, end_date) ==
  LET start == start_date
      end == end_date
      total_days == DateOf(end) - DateOf(start)
  IN get_events_scan(start, end, -1, total_days + 2)

----------------------------------------------------------------------------
(* The host's timer primitive.                                             *)

RECURSIVE RemoveOne(_, _)
RemoveOne(pending, at) ==
  IF pending = <<>> THEN <<>>
  ELSE IF Head(pending) = at THEN Tail(pending)
  ELSE <<Head(pending)>> \o RemoveOne(Tail(pending), at)

\* Calling a cancel handle: the timer is dropped if it is still pending.
Cancel(pending, handle) ==
  IF handle = NoTimer THEN pending ELSE RemoveOne(pending, handle)

\* async_track_point_in_utc_time, after the handle kept so far was called.
Rearm(pending, handle, target) ==
  IF target = NoTimer THEN Cancel(pending, handle)
  ELSE Append(Cancel(pending, handle), target)

----------------------------------------------------------------------------
(* __init__.py: the entry-level scheduler over const.py's resolver.        *)

\* config.workday_entity_tomorrow is the configured value, without the
\* fall-back to today's entity that schedule.py applies at construction.
workday_entity_tomorrow ==
  IF workday_tomorrow = workday_today THEN NoEntity ELSE workday_tomorrow

\* The first bool among the attributes "tomorrow", "next_day", "next_workday".
FallbackForecast(attributes) ==
  IF attributes.tomorrow # NoForecast THEN attributes.tomorrow
  ELSE IF attributes.next_day # NoForecast THEN attributes.next_day
  ELSE attributes.next_workday

_is_workday_for_date(target_date, default, is_tomorrow) ==
  IF ~use_workday_sensor THEN TRUE
  ELSE LET entity_id == IF is_tomorrow THEN workday_entity_tomorrow
                        ELSE workday_today
       IN IF entity_id # NoEntity
          THEN LET state == hass_states[entity_id]
                   forecast == IF is_tomorrow
                               THEN hass_attributes[entity_id].tomorrow
                               ELSE hass_attributes[entity_id].today
               IN IF state = NoState THEN default
                  ELSE IF state \in {"on", "true", "1"} THEN TRUE
                  ELSE IF state \in {"off", "false", "0"} THEN FALSE
                  ELSE IF forecast # NoForecast THEN forecast = "True"
                  ELSE default
          ELSE IF /\ is_tomorrow
                  /\ workday_today # NoEntity
                  /\ hass_states[workday_today] # NoState
                  /\ FallbackForecast(hass_attributes[workday_today])
                       # NoForecast
          THEN FallbackForecast(hass_attributes[workday_today]) = "True"
          ELSE TRUE

\* The start is put on the target date at the hour of shift_info.start, and
\* the end is recomputed from it.
_localize_shift_info(shift_info, target_date) ==
  LET start == Combine(target_date, shift_info.start % HoursPerDay)
      end == start + shift_duration
  IN ShiftInstance(shift_info.code, start, end, NoIndex)

_resolve_shift_for_day(target_date, is_tomorrow) ==
  IF ~_is_workday_for_date(target_date, TRUE, is_tomorrow) THEN NoShift
  ELSE LET shift_info == get_shift_info(target_date) IN
    IF shift_info.raised THEN Raised
    ELSE IF ~shift_info.some THEN NoShift
    ELSE _localize_shift_info(shift_info, target_date)

----------------------------------------------------------------------------
(* config_flow.py at the repository root: the "shifts" step of the wizard  *)
(* checks the number of shifts only; the duration is coerced to an int and *)
(* stored unchecked.                                                       *)

RootWizardAcceptsShifts(duration, num_shifts) ==
  num_shifts >= 1 /\ num_shifts <= 9

----------------------------------------------------------------------------
(* Inputs.                                                                 *)

PatternChars == {"0", "1", "2", "x"}

Patterns == UNION {[1..n -> PatternChars] : n \in 0..MaxPatternLen}

StartTimesInputs == {<<>>, <<22>>, <<0, 22>>, <<22, 0>>}

Durations == {0, DefaultShiftDuration, 24, 27}

ManualInputs ==
  {<<>>, <<(<<3, 2>>)>>, <<(<<BadDate, 1>>), (<<1, NoEnd>>)>>}

SearchDaysInputs == {0, 2, DefaultSearchDays}

ScanDurations == {0, DefaultShiftDuration}

ScanStartTimesInputs == {<<0, 22>>}

ScanManualInputs == {<<>>, <<(<<3, 2>>)>>}

Entities == {"binary_sensor.workday", "binary_sensor.workday_tomorrow"}

SignalStates == {NoState, "on", "off", "Off", "false", "0", "unknown"}

OverridePatterns == {<<"1", "2">>, <<"2", "0">>}

NoAttributes ==
  [e \in Entities |->
     [today |-> NoForecast, tomorrow |-> NoForecast,
      next_day |-> NoForecast, next_workday |-> NoForecast]]

AttributeInputs ==
  {NoAttributes,
   [e \in Entities |->
      [today |-> "False", tomorrow |-> NoForecast,
       next_day |-> NoForecast, next_workday |-> NoForecast]],
   [e \in Entities |->
      [today |-> NoForecast, tomorrow |-> NoForecast,
       next_day |-> "False", next_workday |-> "True"]]}

Adapters == {"active", "day", "day_tomorrow", "calendar"}

\* sensor.py async_setup_entry: the two day sensors, for today and tomorrow.
DaySensors == {"day", "day_tomorrow"}

\* WorkshiftDaySensor._offset
DayOffset(a) == IF a = "day_tomorrow" THEN 1 ELSE 0

AdapterPatterns == {<<"2">>, <<"1", "0">>, <<"0", "2">>}

----------------------------------------------------------------------------
(* The resolver as a state machine: a caller makes one call at a time.     *)

Idle ==
  [op |-> "idle", day |-> 0, moment |-> 0, search_days |-> 0,
   result |-> NoShift, lookups |-> 0]

\* The handler of a refresh cycle that ran at the current instant.
NoRefresh == [adapter |-> "none", handler |-> "none"]

Refresh(adapter, handler) == [adapter |-> adapter, handler |-> handler]

\* No entity of the entry is added to the host.
AdaptersAbsent ==
  /\ added = [a \in Adapters |-> FALSE]
  /\ timers = [a \in Adapters |-> <<>>]
  /\ timer_cancel = [a \in Adapters |-> NoTimer]
  /\ subscriptions = [a \in Adapters |-> 0]
  /\ attr_is_on = FALSE
  /\ attr_native_value = NoShift
  /\ attr_event = NoShift
  /\ last_refresh = NoRefresh

\* WorkshiftSchedule.__init__ with the override switched off.
InitPlain(durations, start_inputs, manual_inputs) ==
  /\ shift_duration \in durations
  /\ pattern \in Patterns
  /\ start_times \in start_inputs
  /\ base_date = 1
  /\ \E entries \in manual_inputs :
        manual_days_off = _parse_manual_days_off(entries)
  /\ use_workday_sensor = FALSE
  /\ workday_today = NoEntity
  /\ workday_tomorrow = NoEntity
  /\ hass_states = [e \in Entities |-> NoState]
  /\ now = Combine(1, 12)

\* WorkshiftSchedule.__init__ with the override switched on: the tomorrow
\* entity falls back to the today entity.
InitWorkday(manual_inputs) ==
  /\ shift_duration = DefaultShiftDuration
  /\ pattern = <<"1", "2">>
  /\ start_times = <<0, 22>>
  /\ base_date = 1
  /\ \E entries \in manual_inputs :
        manual_days_off = _parse_manual_days_off(entries)
  /\ use_workday_sensor = TRUE
  /\ workday_today \in {NoEntity, "binary_sensor.workday"}
  /\ \E tomorrow \in {NoEntity, "binary_sensor.workday_tomorrow"} :
        workday_tomorrow = IF tomorrow = NoEntity THEN workday_today
                           ELSE tomorrow
  /\ hass_states \in [Entities -> {NoState, "on", "off"}]
  /\ now \in {Combine(d, 12) : d \in 1..2}

Init ==
  /\ InitPlain(Durations, StartTimesInputs, ManualInputs)
       \/ InitWorkday(ManualInputs)
  /\ hass_attributes = NoAttributes
  /\ AdaptersAbsent
  /\ SetupAbsent
  /\ EntryAbsent
  /\ call = Idle

GetShift ==
  /\ call.op = "idle"
  /\ \E day \in Days :
        call' = [Idle EXCEPT !.op = "get_shift", !.day = day,
                             !.result = get_shift(day)]
  /\ UNCHANGED <<entry_vars, setup_vars, config_vars, host_vars, adapter_vars>>

ShiftCovering ==
  /\ call.op = "idle"
  /\ \E moment \in Instants :
        call' = [Idle EXCEPT !.op = "shift_covering", !.moment = moment,
                             !.result = shift_covering(moment)]
  /\ UNCHANGED <<entry_vars, setup_vars, config_vars, host_vars, adapter_vars>>

NextShiftAfter ==
  /\ call.op = "idle"
  /\ \E moment \in Instants, search_days \in SearchDaysInputs :
        LET r == next_shift_after(moment, search_days) IN
        call' = [Idle EXCEPT !.op = "next_shift_after", !.moment = moment,
                             !.search_days = search_days,
                             !.result = r.result, !.lookups = r.lookups]
  /\ UNCHANGED <<entry_vars, setup_vars, config_vars, host_vars, adapter_vars>>

GetShiftInfo ==
  /\ call.op = "idle"
  /\ _parse_shift_starts_ok
  /\ \E day \in Days :
        call' = [Idle EXCEPT !.op = "get_shift_info", !.day = day,
                             !.result = get_shift_info(day)]
  /\ UNCHANGED <<entry_vars, setup_vars, config_vars, host_vars, adapter_vars>>

\* The caller takes the result; the resolver keeps no state between calls.
Return ==
  /\ call.op # "idle"
  /\ call' = Idle
  /\ UNCHANGED <<entry_vars, setup_vars, config_vars, host_vars, adapter_vars>>

Next == GetShift \/ ShiftCovering \/ GetShiftInfo \/ Return

Spec == Init /\ [][Next]_vars

\* The scan of next_shift_after, over the configurations of InitScan.
InitScan ==
  /\ InitPlain(ScanDurations, ScanStartTimesInputs, ScanManualInputs)
       \/ InitWorkday({<<>>})
  /\ hass_attributes = NoAttributes
  /\ AdaptersAbsent
  /\ SetupAbsent
  /\ EntryAbsent
  /\ call = Idle

NextScan == NextShiftAfter \/ Return

SpecScan == InitScan /\ [][NextScan]_vars

----------------------------------------------------------------------------
(* The workday override: every resolver of the repository, called while    *)
(* the days pass.                                                          *)

\* The code a resolver returned, as a result record.
CodeResult(code) ==
  IF code = 0 THEN NoShift ELSE ShiftInstance(code, 0, 0, NoIndex)

InitOverride ==
  /\ shift_duration = DefaultShiftDuration
  /\ pattern \in OverridePatterns
  /\ start_times = <<0, 22>>
  /\ base_date = 1
  /\ manual_days_off = _parse_manual_days_off(<<>>)
  /\ use_workday_sensor = TRUE
  /\ workday_today \in {NoEntity, "binary_sensor.workday"}
  /\ \E tomorrow \in {NoEntity, "binary_sensor.workday_tomorrow"} :
        workday_tomorrow = IF tomorrow = NoEntity THEN workday_today
                           ELSE tomorrow
  /\ hass_states \in [Entities -> SignalStates]
  /\ hass_attributes \in AttributeInputs
  /\ now = Combine(1, 12)
  /\ AdaptersAbsent
  /\ SetupAbsent
  /\ EntryAbsent
  /\ call = Idle

\* sensor.py: WorkshiftDaySensor._get_schedule_code(day)
DaySensorCode ==
  /\ call.op = "idle"
  /\ \E day \in Days :
        call' = [Idle EXCEPT
                   !.op = "day_code", !.day = day,
                   !.result =
                     CodeResult(WorkshiftDaySensor_get_schedule_code(day))]
  /\ UNCHANGED <<entry_vars, setup_vars, config_vars, host_vars, adapter_vars>>

\* binary_sensor.py: WorkshiftActiveSensor._get_schedule_code(day)
ActiveSensorCode ==
  /\ call.op = "idle"
  /\ \E day \in Days :
        call' = [Idle EXCEPT
                   !.op = "active_code", !.day = day,
                   !.result =
                     CodeResult(WorkshiftActiveSensor_get_schedule_code(day))]
  /\ UNCHANGED <<entry_vars, setup_vars, config_vars, host_vars, adapter_vars>>

\* __init__.py: _async_update_state resolves today and tomorrow.
ResolveShiftForDay ==
  /\ call.op = "idle"
  /\ _parse_shift_starts_ok
  /\ \E is_tomorrow \in BOOLEAN :
        LET target_date == DateOf(now) + (IF is_tomorrow THEN 1 ELSE 0) IN
        call' = [Idle EXCEPT
                   !.op = "resolve_shift_for_day", !.day = target_date,
                   !.result = _resolve_shift_for_day(target_date, is_tomorrow)]
  /\ UNCHANGED <<entry_vars, setup_vars, config_vars, host_vars, adapter_vars>>

\* A day passes between two calls; nothing else changes.
NextDay ==
  /\ call.op = "idle"
  /\ DateOf(now) < MaxDay
  /\ now' = now + HoursPerDay
  /\ UNCHANGED <<entry_vars, setup_vars, config_vars, hass_states, hass_attributes, call,
                 adapter_vars>>

NextOverride ==
  GetShift \/ DaySensorCode \/ ActiveSensorCode \/ ResolveShiftForDay
    \/ NextDay \/ Return

SpecOverride == InitOverride /\ [][NextOverride]_vars

----------------------------------------------------------------------------
(* The entity adapters: one entity of the entry is watched while the hours *)
(* pass, it is added and removed, its timers fire and the workday entity   *)
(* changes state.                                                          *)

InitAdapters ==
  /\ shift_duration = DefaultShiftDuration
  /\ pattern \in AdapterPatterns
  /\ start_times = <<0, 22>>
  /\ base_date = 1
  /\ manual_days_off = _parse_manual_days_off(<<>>)
  /\ use_workday_sensor \in BOOLEAN
  /\ workday_today =
       IF use_workday_sensor THEN "binary_sensor.workday" ELSE NoEntity
  /\ \E tomorrow \in {NoEntity, "binary_sensor.workday_tomorrow"} :
        workday_tomorrow = IF use_workday_sensor /\ tomorrow # NoEntity
                           THEN tomorrow ELSE workday_today
  /\ hass_states = [e \in Entities |->
                      IF e \in {workday_today, workday_tomorrow}
                      THEN "on" ELSE NoState]
  /\ hass_attributes = NoAttributes
  /\ now = Combine(1, 0)
  /\ call = Idle
  /\ \E a \in Adapters :
        /\ added = [x \in {a} |-> FALSE]
        /\ timers = [x \in {a} |-> <<>>]
        /\ timer_cancel = [x \in {a} |-> NoTimer]
        /\ subscriptions = [x \in {a} |-> 0]
  /\ attr_is_on = FALSE
  /\ attr_native_value = NoShift
  /\ attr_event = NoShift
  /\ last_refresh = NoRefresh
  /\ SetupAbsent
  /\ EntryAbsent

\* A timer of the adapter is due.
Due(a) == \E i \in 1..Len(timers[a]) : timers[a][i] <= now

\* WorkshiftActiveSensor.async_added_to_hass
ActiveAdded ==
  /\ "active" \in DOMAIN added
  /\ ~added["active"]
  /\ LET fresh == _is_shift_active_now
         target == _schedule_next_event(fresh)
     IN /\ attr_is_on' = fresh
        /\ timers' = [timers EXCEPT
             !["active"] = Rearm(@, timer_cancel["active"], target)]
        /\ timer_cancel' = [timer_cancel EXCEPT !["active"] = target]
  /\ added' = [added EXCEPT !["active"] = TRUE]
  /\ last_refresh' = Refresh("active", "added")
  /\ UNCHANGED <<entry_vars, setup_vars, config_vars, host_vars, call, subscriptions,
                 attr_native_value, attr_event>>

\* WorkshiftActiveSensor._timer_trigger, called by the host for a due timer.
ActiveTimerFired ==
  /\ "active" \in DOMAIN added
  /\ \E i \in 1..Len(timers["active"]) :
        /\ timers["active"][i] <= now
        /\ LET pending == RemoveOne(timers["active"], timers["active"][i])
               fresh == _is_shift_active_now
               target == _schedule_next_event(fresh)
           IN /\ attr_is_on' = fresh
              /\ timers' = [timers EXCEPT
                   !["active"] = Rearm(pending, timer_cancel["active"],
                                       target)]
              /\ timer_cancel' = [timer_cancel EXCEPT !["active"] = target]
  /\ last_refresh' = Refresh("active", "timer")
  /\ UNCHANGED <<entry_vars, setup_vars, config_vars, host_vars, call, added, subscriptions,
                 attr_native_value, attr_event>>

\* WorkshiftActiveSensor.async_will_remove_from_hass
ActiveRemoved ==
  /\ "active" \in DOMAIN added
  /\ added["active"]
  /\ timers' = [timers EXCEPT
       !["active"] = Cancel(@, timer_cancel["active"])]
  /\ timer_cancel' = [timer_cancel EXCEPT !["active"] = NoTimer]
  /\ added' = [added EXCEPT !["active"] = FALSE]
  /\ last_refresh' = NoRefresh
  /\ UNCHANGED <<entry_vars, setup_vars, config_vars, host_vars, call, subscriptions, attr_is_on,
                 attr_native_value, attr_event>>

\* The workday entities the day sensor subscribes to.
DaySensorEntities ==
  IF ~use_workday_sensor THEN {}
  ELSE {workday_today, workday_tomorrow} \ {NoEntity}

\* WorkshiftDaySensor.async_added_to_hass: the state is refreshed, a timer is
\* armed for the next local midnight and the workday entities are subscribed
\* to; neither handle is kept.
DayAdded ==
  \E a \in DaySensors \cap DOMAIN added :
    /\ ~added[a]
    /\ Len(timers[a]) < MaxPending
    /\ subscriptions[a] < MaxPending
    /\ attr_native_value' = WorkshiftDaySensor_update_state(DayOffset(a))
    /\ timers' = [timers EXCEPT
         ![a] = Append(@, Combine(DateOf(now) + 1, 0))]
    /\ subscriptions' = [subscriptions EXCEPT
         ![a] = IF DaySensorEntities # {} THEN @ + 1 ELSE @]
    /\ added' = [added EXCEPT ![a] = TRUE]
    /\ last_refresh' = Refresh(a, "added")
    /\ UNCHANGED <<entry_vars, setup_vars, config_vars, host_vars, call, timer_cancel, attr_is_on,
                   attr_event>>

\* A plausible slip: the midnight callback refreshes the state and does not
\* arm the timer again.
DayTimerFired_once ==
  \E a \in DaySensors \cap DOMAIN added :
    /\ \E i \in 1..Len(timers[a]) :
          /\ timers[a][i] <= now
          /\ timers' = [timers EXCEPT ![a] = RemoveOne(@, timers[a][i])]
    /\ attr_native_value' = WorkshiftDaySensor_update_state(DayOffset(a))
    /\ last_refresh' = Refresh(a, "timer")
    /\ UNCHANGED <<entry_vars, setup_vars, config_vars, host_vars, call, added, timer_cancel,
                   subscriptions, attr_is_on, attr_event>>

\* midnight_cb(ts): the state is refreshed and the timer is armed again for
\* ts + 1 day.
DayTimerFired ==
  \E a \in DaySensors \cap DOMAIN added :
    /\ \E i \in 1..Len(timers[a]) :
          /\ timers[a][i] <= now
          /\ LET ts == timers[a][i]
                 pending == RemoveOne(timers[a], ts)
             IN timers' = [timers EXCEPT
                  ![a] = Append(pending, ts + HoursPerDay)]
    /\ attr_native_value' = WorkshiftDaySensor_update_state(DayOffset(a))
    /\ last_refresh' = Refresh(a, "timer")
    /\ UNCHANGED <<entry_vars, setup_vars, config_vars, host_vars, call, added, timer_cancel,
                   subscriptions, attr_is_on, attr_event>>

\* A day sensor is removed: the class has no async_will_remove_from_hass,
\* so nothing is cancelled.
DayRemoved ==
  \E a \in DaySensors \cap DOMAIN added :
    /\ added[a]
    /\ added' = [added EXCEPT ![a] = FALSE]
    /\ last_refresh' = NoRefresh
    /\ UNCHANGED <<entry_vars, setup_vars, config_vars, host_vars, call, timers, timer_cancel,
                   subscriptions, attr_is_on, attr_native_value, attr_event>>

\* WorkshiftCalendarEntity.async_added_to_hass: _refresh
CalendarAdded ==
  /\ "calendar" \in DOMAIN added
  /\ ~added["calendar"]
  /\ LET event == _compute_current_event
         target == _schedule_refresh(event)
     IN /\ attr_event' = event
        /\ timers' = [timers EXCEPT
             !["calendar"] = Rearm(@, timer_cancel["calendar"], target)]
        /\ timer_cancel' = [timer_cancel EXCEPT !["calendar"] = target]
  /\ added' = [added EXCEPT !["calendar"] = TRUE]
  /\ last_refresh' = Refresh("calendar", "added")
  /\ UNCHANGED <<entry_vars, setup_vars, config_vars, host_vars, call, subscriptions, attr_is_on,
                 attr_native_value>>

\* WorkshiftCalendarEntity._refresh, called by the host for a due timer.
CalendarTimerFired ==
  /\ "calendar" \in DOMAIN added
  /\ \E i \in 1..Len(timers["calendar"]) :
        /\ timers["calendar"][i] <= now
        /\ LET pending == RemoveOne(timers["calendar"],
                                    timers["calendar"][i])
               event == _compute_current_event
               target == _schedule_refresh(event)
           IN /\ attr_event' = event
              /\ timers' = [timers EXCEPT
                   !["calendar"] = Rearm(pending, timer_cancel["calendar"],
                                         target)]
              /\ timer_cancel' = [timer_cancel EXCEPT
                   !["calendar"] = target]
  /\ last_refresh' = Refresh("calendar", "timer")
  /\ UNCHANGED <<entry_vars, setup_vars, config_vars, host_vars, call, added, subscriptions,
                 attr_is_on, attr_native_value>>

\* WorkshiftCalendarEntity.async_will_remove_from_hass
CalendarRemoved ==
  /\ "calendar" \in DOMAIN added
  /\ added["calendar"]
  /\ timers' = [timers EXCEPT
       !["calendar"] = Cancel(@, timer_cancel["calendar"])]
  /\ timer_cancel' = [timer_cancel EXCEPT !["calendar"] = NoTimer]
  /\ added' = [added EXCEPT !["calendar"] = FALSE]
  /\ last_refresh' = NoRefresh
  /\ UNCHANGED <<entry_vars, setup_vars, config_vars, host_vars, call, subscriptions, attr_is_on,
                 attr_native_value, attr_event>>

\* A plausible slip: the handler of the state change publishes without
\* recomputing.
StateChanged_stale ==
  /\ use_workday_sensor
  /\ \E entity_id \in DaySensorEntities, state \in {"on", "off"} :
        /\ state # hass_states[entity_id]
        /\ hass_states' = [hass_states EXCEPT ![entity_id] = state]
  /\ last_refresh' = NoRefresh
  /\ UNCHANGED <<entry_vars, setup_vars, config_vars, hass_attributes, now, call, added, timers,
                 timer_cancel, subscriptions, attr_is_on, attr_event,
                 attr_native_value>>

\* A configured workday entity changes state and the host notifies the
\* subscribers: _handle_workday_state_change of the day sensor refreshes its
\* state.
StateChanged ==
  /\ use_workday_sensor
  /\ UNCHANGED <<entry_vars, setup_vars, config_vars, hass_attributes, now, call, added, timers,
                 timer_cancel, subscriptions, attr_is_on, attr_event>>
  /\ \E entity_id \in DaySensorEntities, state \in {"on", "off"} :
        /\ state # hass_states[entity_id]
        /\ hass_states' = [hass_states EXCEPT ![entity_id] = state]
  /\ LET subscribed ==
           {a \in DaySensors \cap DOMAIN added : subscriptions[a] > 0}
     IN attr_native_value' =
          IF subscribed = {} THEN attr_native_value
          ELSE WorkshiftDaySensor_update_state(
                 DayOffset(CHOOSE a \in subscribed : TRUE))'
  /\ last_refresh' = NoRefresh

\* An hour passes.  The host fires a timer at its instant, so the clock does
\* not pass a timer that is due.
Tick ==
  /\ now + 1 \in Instants
  /\ \A a \in DOMAIN added : ~Due(a)
  /\ now' = now + 1
  /\ last_refresh' = NoRefresh
  /\ UNCHANGED <<entry_vars, setup_vars, config_vars, hass_states, hass_attributes, call, added,
                 timers, timer_cancel, subscriptions, attr_is_on,
                 attr_native_value, attr_event>>

NextAdapters ==
  \/ ActiveAdded \/ ActiveTimerFired \/ ActiveRemoved
  \/ DayAdded \/ DayTimerFired \/ DayRemoved
  \/ CalendarAdded \/ CalendarTimerFired \/ CalendarRemoved
  \/ StateChanged \/ Tick

SpecAdapters == InitAdapters /\ [][NextAdapters]_vars

----------------------------------------------------------------------------
(* The calendar's range query, asked by the host for the ranges it shows.  *)

CalendarDurations == {DefaultShiftDuration, 24, 27}

CalendarStartTimesInputs == {<<0, 22>>, <<22, 0>>}

\* The hours of the instants a range starts or ends at: midnight, the end of
\* an overnight shift and the start of a late shift.
QueryHours == {0, 6, 22}

QueryInstants == {Combine(d, h) : d \in Days, h \in QueryHours}

InitCalendar ==
  /\ InitPlain(CalendarDurations, CalendarStartTimesInputs, ScanManualInputs)
       \/ InitWorkday({<<>>})
  /\ hass_attributes = NoAttributes
  /\ AdaptersAbsent
  /\ SetupAbsent
  /\ EntryAbsent
  /\ call = Idle

\* WorkshiftCalendarEntity.async_get_events(hass, start_date, end_date)
GetEvents ==
  /\ call.op = "idle"
  /\ \E start_date \in QueryInstants, end_date \in QueryInstants :
        call' = [op |-> "async_get_events", start_date |-> start_date,
                 end_date |-> end_date,
                 result |-> async_get_events(start_date, end_date)]
  /\ UNCHANGED <<entry_vars, setup_vars, config_vars, host_vars, adapter_vars>>

NextCalendar == GetEvents \/ Return

SpecCalendar == InitCalendar /\ [][NextCalendar]_vars

----------------------------------------------------------------------------
(* config_flow.py: the configuration wizards.  src/config_flow.py is the   *)
(* handler "root"; the package's WorkshiftConfigFlow is "package" and its  *)
(* WorkshiftOptionsFlow is "options".  A string the wizards parse is a     *)
(* sequence of characters, a date string is its <<year, month, day>>.      *)

DigitChars == {"0", "1", "2", "3", "4", "5", "6", "7", "8", "9"}

\* int(s) of a string of digits.
RECURSIVE IntOfDigits(_)
IntOfDigits(s) ==
  IF s = <<>> THEN 0
  ELSE IntOfDigits(SubSeq(s, 1, Len(s) - 1)) * 10 + IntOf(s[Len(s)])

\* str.isdigit(): a non-empty string of digits.
isdigit(s) == s # <<>> /\ \A i \in 1..Len(s) : IsDigit(s[i])

\* strptime raises ValueError.
BadTime == -1

\* datetime.strptime(value, "%H:%M"): one or two digits of an hour below 24,
\* a colon, one or two digits of a minute below 60; the minute of the day.
_strptime_hm(value) ==
  LET colons == {i \in 1..Len(value) : value[i] = ":"} IN
  IF Cardinality(colons) # 1 THEN BadTime
  ELSE LET c == CHOOSE i \in colons : TRUE
           hh == SubSeq(value, 1, c - 1)
           mm == SubSeq(value, c + 1, Len(value))
       IN IF /\ Len(hh) \in 1..2
             /\ Len(mm) \in 1..2
             /\ isdigit(hh)
             /\ isdigit(mm)
             /\ IntOfDigits(hh) < 24
             /\ IntOfDigits(mm) < 60
          THEN IntOfDigits(hh) * 60 + IntOfDigits(mm)
          ELSE BadTime

DigitChar(n) == CHOOSE ch \in DigitChars : IntOf(ch) = n

\* time.strftime("%H:%M"): two digits each.
_strftime_hm(minutes) ==
  LET hour == minutes \div 60
      minute == minutes % 60
  IN <<DigitChar(hour \div 10), DigitChar(hour % 10), ":",
       DigitChar(minute \div 10), DigitChar(minute % 10)>>

\* date.fromisoformat(start_date), and strptime(date_str, "%Y-%m-%d") of the
\* root wizard, succeed.
_date_parses(value) ==
  /\ Len(value) = 3
  /\ value[2] \in 1..12
  /\ value[3] \in 1..31

\* str.strip().replace(" ", "")
RECURSIVE RemoveSpaces(_)
RemoveSpaces(s) ==
  IF s = <<>> THEN <<>>
  ELSE (IF Head(s) = " " THEN <<>> ELSE <<Head(s)>>) \o RemoveSpaces(Tail(s))

\* self._data.update(changes)
Update(data, changes) == changes @@ data

\* async_show_form(step_id = the same step, errors): _data is not touched.
Rejected(errors) == [flow EXCEPT !.errors = errors]

\* The step took its input: _data is updated and the next step's form is
\* shown; `accepted` lists the steps that took input so far.
Accepted(data, next_step) ==
  [flow EXCEPT !.data = data, !.errors = NoError, !.step_id = next_step,
               !.accepted = Append(@, flow.step_id)]

\* src/config_flow.py WorkshiftConfigFlow.async_step_user
root_async_step_user(user_input) ==
  IF "name" \in DOMAIN config_entry /\ config_entry.name = user_input.name
  THEN Rejected("name_exists")
  ELSE Accepted(Update(flow.data, user_input), "shifts")

\* src/config_flow.py WorkshiftConfigFlow.async_step_shifts
root_async_step_shifts(user_input) ==
  LET num == user_input.num_shifts IN
  IF num < 1 \/ num > 9 THEN Rejected("invalid_num_shifts")
  ELSE Accepted(Update(flow.data, user_input), "start_times")

\* A plausible slip: the times stored before they are checked.
root_async_step_start_times_eager(times) ==
  LET stored == Update(flow.data, [start_times |-> times]) IN
  IF \E i \in 1..Len(times) : _strptime_hm(times[i]) = BadTime
  THEN [flow EXCEPT !.errors = "invalid_time_format", !.data = stored]
  ELSE IF \E i \in 1..(Len(times) - 1) :
            _strptime_hm(times[i]) >= _strptime_hm(times[i + 1])
  THEN [flow EXCEPT !.errors = "times_not_sorted", !.data = stored]
  ELSE Accepted(stored, "schedule")

\* src/config_flow.py WorkshiftConfigFlow.async_step_start_times: `times`
\* holds the fields start_times_1 .. start_times_<num_shifts>; the strings
\* are stored as they were typed.
root_async_step_start_times(times) ==
  IF \E i \in 1..Len(times) : _strptime_hm(times[i]) = BadTime
  THEN Rejected("invalid_time_format")
  ELSE IF \E i \in 1..(Len(times) - 1) :
            _strptime_hm(times[i]) >= _strptime_hm(times[i + 1])
  THEN Rejected("times_not_sorted")
  ELSE Accepted(Update(flow.data, [start_times |-> times]), "schedule")

\* src/config_flow.py WorkshiftConfigFlow.async_step_schedule
root_async_step_schedule(date_str, sched) ==
  IF ~isdigit(sched)
       \/ \E i \in 1..Len(sched) : IntOf(sched[i]) > flow.data.num_shifts
  THEN Rejected("invalid_schedule")
  ELSE IF ~_date_parses(date_str) THEN Rejected("invalid_date")
  ELSE Accepted(Update(flow.data, [schedule_start |-> date_str,
                                   schedule |-> sched]),
                "create_entry")

\* WorkshiftFlowHandlerBase._clean_general
_clean_general(user_input) ==
  [entry_name |-> IF user_input.entry_name = "" THEN "Workshift"
                  ELSE user_input.entry_name,
   use_workday_sensor |-> user_input.use_workday_sensor,
   workday_entity_today |->
     IF user_input.use_workday_sensor
     THEN user_input.workday_entity_today ELSE NoEntity,
   workday_entity_tomorrow |->
     IF user_input.use_workday_sensor
     THEN user_input.workday_entity_tomorrow ELSE NoEntity]

\* WorkshiftConfigFlow.async_step_user and WorkshiftOptionsFlow.async_step_user
async_step_user(user_input) ==
  LET cleaned == _clean_general(user_input) IN
  IF cleaned.use_workday_sensor /\ cleaned.workday_entity_today = NoEntity
  THEN Rejected("workday_required")
  ELSE Accepted(Update(flow.data, cleaned), "shifts")

\* async_step_shifts of the package's two flows.
async_step_shifts(user_input) ==
  LET shift_hours == user_input.shift_hours
      per_day == user_input.shifts_per_day
  IN IF ~(1 <= shift_hours /\ shift_hours <= 24)
     THEN Rejected("invalid_shift_hours")
     ELSE IF ~(1 <= per_day /\ per_day <= 9)
     THEN Rejected("invalid_shifts_per_day")
     ELSE Accepted(Update(flow.data, user_input), "shift_times")

\* The loop of _validate_shift_starts from position i on; last_minutes is
\* BadTime before the first value.
RECURSIVE validate_shift_starts_scan(_, _, _)
validate_shift_starts_scan(values, i, last_minutes) ==
  IF i > Len(values) THEN [error |-> NoError, normalized |-> <<>>]
  ELSE LET minutes == _strptime_hm(values[i]) IN
    IF minutes = BadTime
    THEN [error |-> "invalid_shift_start_format", normalized |-> <<>>]
    ELSE IF last_minutes # BadTime /\ minutes <= last_minutes
    THEN [error |-> "invalid_shift_start_order", normalized |-> <<>>]
    ELSE LET rest == validate_shift_starts_scan(values, i + 1, minutes) IN
      [error |-> rest.error,
       normalized |-> <<_strftime_hm(minutes)>> \o rest.normalized]

\* A plausible slip: only the format of the start times checked.
_validate_shift_starts_unordered(values) ==
  IF \E i \in 1..Len(values) : _strptime_hm(values[i]) = BadTime
  THEN [error |-> "invalid_shift_start_format", normalized |-> <<>>]
  ELSE [error |-> NoError,
        normalized |->
          [i \in 1..Len(values) |-> _strftime_hm(_strptime_hm(values[i]))]]

_validate_shift_starts(values) == validate_shift_starts_scan(values, 1, BadTime)

\* async_step_shift_times of the package's two flows: `values` holds the
\* fields of self._shift_keys, one per shift of the form shown.
async_step_shift_times(values) ==
  LET validated == _validate_shift_starts(values) IN
  IF validated.error # NoError THEN Rejected(validated.error)
  ELSE Accepted(Update(flow.data, [shift_starts |-> validated.normalized]),
                "schedule")

\* A plausible slip: the digits checked against the largest number of shifts
\* a day can have.
_validate_schedule_any_shift(start_date, schedule, per_day) ==
  IF ~_date_parses(start_date) THEN "invalid_schedule_date"
  ELSE IF schedule = <<>> THEN "invalid_schedule_pattern"
  ELSE IF ~isdigit(schedule) THEN "invalid_schedule_pattern"
  ELSE IF \E i \in 1..Len(schedule) : IntOf(schedule[i]) > 9
  THEN "invalid_schedule_digit"
  ELSE NoError

\* _validate_schedule: the error it raises, or none.
_validate_schedule(start_date, schedule, per_day) ==
  IF ~_date_parses(start_date) THEN "invalid_schedule_date"
  ELSE IF schedule = <<>> THEN "invalid_schedule_pattern"
  ELSE IF ~isdigit(schedule) THEN "invalid_schedule_pattern"
  ELSE IF \E i \in 1..Len(schedule) : IntOf(schedule[i]) > per_day
  THEN "invalid_schedule_digit"
  ELSE NoError

\* WorkshiftFlowHandlerBase._clean_schedule
_clean_schedule(start_date, schedule) ==
  [schedule_start_date |-> start_date,
   schedule_string |-> RemoveSpaces(schedule)]

\* async_step_schedule of the package's two flows.
async_step_schedule(start_date, schedule) ==
  LET cleaned == _clean_schedule(start_date, schedule)
      error == _validate_schedule(cleaned.schedule_start_date,
                                  cleaned.schedule_string,
                                  flow.data.shifts_per_day)
  IN IF error # NoError THEN Rejected(error)
     ELSE Accepted(Update(flow.data, cleaned), "create_entry")

\* WorkshiftFlowHandlerBase._finalize: the entity keys are dropped when they
\* hold nothing.
_finalize(data) ==
  LET dropped ==
        IF ~data.use_workday_sensor
        THEN {"workday_entity_today", "workday_entity_tomorrow"}
        ELSE IF data.workday_entity_tomorrow = NoEntity
        THEN {"workday_entity_tomorrow"}
        ELSE {}
  IN [key \in DOMAIN data \ dropped |-> data[key]]

\* async_create_entry(data): what the registry holds afterwards.  The options
\* flow's data become the entry's options, read over its data.
async_create_entry(finished) ==
  IF finished.handler = "root" THEN finished.data
  ELSE IF finished.handler = "package" THEN _finalize(finished.data)
  ELSE Update(finished.config_entry, _finalize(finished.data))

\* __init__.py _parse_shift_starts raises nothing.
_parse_shift_starts(starts, per_day) ==
  /\ Len(starts) = per_day
  /\ \A i \in 1..Len(starts) : _strptime_hm(starts[i]) # BadTime
  /\ \A i \in 1..(Len(starts) - 1) :
        _strptime_hm(starts[i]) < _strptime_hm(starts[i + 1])

\* __init__.py _config_entry_to_data raises nothing.
_config_entry_to_data(raw) ==
  /\ {"entry_name", "shift_hours", "shifts_per_day", "shift_starts",
      "schedule_start_date", "schedule_string"} \subseteq DOMAIN raw
  /\ _parse_shift_starts(raw.shift_starts, raw.shifts_per_day)
  /\ _date_parses(raw.schedule_start_date)

NameInputs == {"Workshift", "Night"}

ShiftHoursInputs == {0, DefaultShiftDuration, 25}

ShiftsPerDayInputs == {0, 1, 2, 10}

TimeInputs ==
  {<<"0", "6", ":", "0", "0">>, <<"6", ":", "0", "0">>,
   <<"2", "2", ":", "0", "0">>, <<"2", "4", ":", "0", "0">>}

DateInputs == {<<2024, 1, 1>>, <<2024, 13, 1>>}

ScheduleChars == {"0", "2", "3", "x", " "}

ScheduleInputs == UNION {[1..n -> ScheduleChars] : n \in 0..MaxPatternLen}

\* Entries as the registry may hold them, whoever wrote them.
StoredEntries ==
  {[entry_name |-> "Night", use_workday_sensor |-> FALSE,
    shift_hours |-> DefaultShiftDuration, shifts_per_day |-> per_day,
    shift_starts |-> starts, schedule_start_date |-> <<2024, 1, 1>>,
    schedule_string |-> <<"0">>] :
     per_day \in {1, 2},
     starts \in UNION {[1..n -> TimeInputs] : n \in 0..2}}

\* The resolver's configuration while the entry is being set up.
ResolverAtRest ==
  /\ shift_duration = DefaultShiftDuration
  /\ pattern = <<"1", "2">>
  /\ start_times = <<0, 22>>
  /\ base_date = 1
  /\ manual_days_off = _parse_manual_days_off(<<>>)
  /\ use_workday_sensor = FALSE
  /\ workday_today = NoEntity
  /\ workday_tomorrow = NoEntity
  /\ hass_states = [e \in Entities |-> NoState]
  /\ hass_attributes = NoAttributes
  /\ now = Combine(1, 12)
  /\ AdaptersAbsent
  /\ call = Idle

InitWizard == ResolverAtRest /\ SetupAbsent /\ EntryAbsent

\* The user starts a configuration flow: the form of the first step is shown.
ConfigFlowInit ==
  /\ flow = NoFlow
  /\ call.op = "idle"
  /\ \E handler \in {"root", "package"} :
        flow' = [NoFlow EXCEPT !.handler = handler, !.step_id = "user"]
  /\ UNCHANGED <<entry_vars, config_entry, language, translations, config_vars,
                 host_vars, call, adapter_vars>>

\* WorkshiftOptionsFlow.__init__ and async_step_init, for an entry of the
\* package's wizard.
OptionsFlowInit ==
  /\ flow = NoFlow
  /\ call.op = "idle"
  /\ "shift_hours" \in DOMAIN config_entry
  /\ flow' = [NoFlow EXCEPT !.handler = "options", !.step_id = "user",
                            !.data = config_entry,
                            !.config_entry = config_entry]
  /\ UNCHANGED <<entry_vars, config_entry, language, translations, config_vars,
                 host_vars, call, adapter_vars>>

\* The general step.
StepUser ==
  /\ flow.step_id = "user"
  /\ \/ /\ flow.handler = "root"
        /\ \E name \in NameInputs :
              flow' = root_async_step_user(
                        [name |-> name,
                         workday_sensor |-> "binary_sensor.workday"])
     \/ /\ flow.handler # "root"
        /\ \E use_workday \in BOOLEAN,
              today \in {NoEntity, "binary_sensor.workday"} :
              flow' = async_step_user(
                        [entry_name |-> "Night",
                         use_workday_sensor |-> use_workday,
                         workday_entity_today |-> today,
                         workday_entity_tomorrow |-> NoEntity])
  /\ UNCHANGED <<entry_vars, config_entry, language, translations, config_vars,
                 host_vars, call, adapter_vars>>

\* The shifts step.
StepShifts ==
  /\ flow.step_id = "shifts"
  /\ \E hours \in ShiftHoursInputs, per_day \in ShiftsPerDayInputs :
        flow' = IF flow.handler = "root"
                THEN root_async_step_shifts(
                       [shift_duration |-> hours, num_shifts |-> per_day])
                ELSE async_step_shifts(
                       [shift_hours |-> hours, shifts_per_day |-> per_day])
  /\ UNCHANGED <<entry_vars, config_entry, language, translations, config_vars,
                 host_vars, call, adapter_vars>>

\* The start-times step: the form has one field per configured shift.
StepShiftTimes ==
  /\ flow.step_id \in {"start_times", "shift_times"}
  /\ LET fields == IF flow.handler = "root" THEN flow.data.num_shifts
                   ELSE flow.data.shifts_per_day
     IN \E values \in [1..fields -> TimeInputs] :
           flow' = IF flow.handler = "root"
                   THEN root_async_step_start_times(values)
                   ELSE async_step_shift_times(values)
  /\ UNCHANGED <<entry_vars, config_entry, language, translations, config_vars,
                 host_vars, call, adapter_vars>>

\* The schedule step; when it accepts, the entry is created.  The registry
\* is watched with one entry, the one created last.
StepSchedule ==
  /\ flow.step_id = "schedule"
  /\ \E start_date \in DateInputs, schedule \in ScheduleInputs :
        LET finished == IF flow.handler = "root"
                        THEN root_async_step_schedule(start_date, schedule)
                        ELSE async_step_schedule(start_date, schedule)
        IN /\ flow' = finished
           /\ config_entry' = IF finished.step_id = "create_entry"
                              THEN async_create_entry(finished)
                              ELSE config_entry
  /\ UNCHANGED <<entry_vars, language, translations, config_vars, host_vars, call,
                 adapter_vars>>

\* The host drops the flow: it has created its entry, or the user closed it.
FlowRemoved ==
  /\ flow # NoFlow
  /\ flow' = NoFlow
  /\ UNCHANGED <<entry_vars, config_entry, language, translations, config_vars,
                 host_vars, call, adapter_vars>>

\* __init__.py async_setup_entry: the entry is loaded when
\* _config_entry_to_data raises nothing, and is not ready otherwise.
SetupEntry ==
  /\ flow = NoFlow
  /\ call.op = "idle"
  /\ \E raw \in {config_entry} \cup StoredEntries :
        call' = [op |-> "async_setup_entry", raw |-> raw,
                 result |-> IF _config_entry_to_data(raw) THEN "loaded"
                            ELSE "not_ready"]
  /\ UNCHANGED <<entry_vars, setup_vars, config_vars, host_vars, adapter_vars>>

NextWizard ==
  \/ ConfigFlowInit \/ OptionsFlowInit
  \/ StepUser \/ StepShifts \/ StepShiftTimes \/ StepSchedule
  \/ FlowRemoved \/ SetupEntry \/ Return

SpecWizard == InitWizard /\ [][NextWizard]_vars

----------------------------------------------------------------------------
(* WorkshiftSchedule.__init__ on a config dict whose schedule_start may be *)
(* missing or unparseable.  The date string <<2024, 1, d>> names day d.    *)

ScheduleStartInputs ==
  {<<>>, <<2024, 13, 1>>} \cup {<<2024, 1, d>> : d \in 1..MaxDay}

\* A plausible slip: the first date of the calendar as the fallback anchor.
WorkshiftSchedule_base_date_epoch(schedule_start) ==
  IF _date_parses(schedule_start) THEN schedule_start[3] ELSE 0

\* self._base_date: the parsed date, and today's date when strptime raises
\* ValueError or TypeError.
WorkshiftSchedule_base_date(schedule_start) ==
  IF _date_parses(schedule_start) THEN schedule_start[3] ELSE DateOf(now)

\* WorkshiftSchedule(hass, config): the entry is reloaded and the resolver
\* is constructed anew, with the schedule_start the config holds.
Construct ==
  /\ call.op = "idle"
  /\ \E schedule_start \in ScheduleStartInputs :
        /\ base_date' = WorkshiftSchedule_base_date(schedule_start)
        /\ call' = [op |-> "__init__", schedule_start |-> schedule_start,
                    day |-> DateOf(now), result |-> NoShift]
  /\ UNCHANGED <<entry_vars, setup_vars, shift_duration, pattern, start_times,
                 manual_days_off, use_workday_sensor, workday_today,
                 workday_tomorrow, host_vars, adapter_vars>>

NextConstruct == Construct \/ GetShift \/ NextDay \/ Return

SpecConstruct == InitScan /\ [][NextConstruct]_vars

----------------------------------------------------------------------------
(* schedule.py: the default shift label, loaded from the translations.     *)

\* The labels the translation files of the model carry.
LabelOf(lang) ==
  CASE lang = "en" -> "Shift" [] lang = "pl" -> "Zmiana"
    [] lang = "de" -> "Schicht"

\* _load_shift_label(lang): the label of the file, None when the file is
\* missing, unreadable or without a label; no exception leaves it.
_load_shift_label(lang) ==
  IF lang \notin DOMAIN translations THEN NoLabel
  ELSE LET f == translations[lang] IN
    IF ~f.exists THEN NoLabel
    ELSE IF ~f.valid THEN NoLabel
    ELSE IF f.shift_label # "" THEN f.shift_label
    ELSE NoLabel

\* A plausible slip: the English file loaded whenever the language is not
\* English.
async_get_default_shift_label_eager ==
  LET lang == IF language = <<>> THEN "en" ELSE Head(language)
      label == _load_shift_label(lang)
      english == _load_shift_label("en")
  IN IF lang # "en"
     THEN [label |-> IF label # NoLabel THEN label
                     ELSE IF english # NoLabel THEN english ELSE "Shift",
           loads |-> <<lang, "en">>, raised |-> FALSE]
     ELSE [label |-> IF label # NoLabel THEN label ELSE "Shift",
           loads |-> <<lang>>, raised |-> FALSE]

\* async_get_default_shift_label(hass): the label it returns and the loads
\* it made, in order.  (hass.config.language or "en").split("-")[0] is the
\* first subtag.
async_get_default_shift_label ==
  LET lang == IF language = <<>> THEN "en" ELSE Head(language)
      label == _load_shift_label(lang)
      again == label = NoLabel /\ lang # "en"
      final == IF again THEN _load_shift_label("en") ELSE label
  IN [label |-> IF final # NoLabel THEN final ELSE "Shift",
      loads |-> IF again THEN <<lang, "en">> ELSE <<lang>>,
      raised |-> FALSE]

LanguageInputs ==
  {<<>>, <<"en">>, <<"en", "GB">>, <<"pl">>, <<"de", "AT">>, <<"fr">>}

TranslationInputs(lang) ==
  {TranslationFile(FALSE, FALSE, ""), TranslationFile(TRUE, FALSE, ""),
   TranslationFile(TRUE, TRUE, ""), TranslationFile(TRUE, TRUE, LabelOf(lang))}

InitLabel ==
  /\ ResolverAtRest
  /\ EntryAbsent
  /\ flow = NoFlow
  /\ config_entry = NoEntry
  /\ language \in LanguageInputs
  /\ translations \in [LanguageFiles -> UNION {TranslationInputs(lang) :
                                                lang \in LanguageFiles}]
  /\ \A lang \in LanguageFiles : translations[lang] \in TranslationInputs(lang)

GetDefaultShiftLabel ==
  /\ call.op = "idle"
  /\ call' = [op |-> "async_get_default_shift_label",
              result |-> async_get_default_shift_label]
  /\ UNCHANGED <<entry_vars, setup_vars, config_vars, host_vars, adapter_vars>>

NextLabel == GetDefaultShiftLabel \/ Return

SpecLabel == InitLabel /\ [][NextLabel]_vars

----------------------------------------------------------------------------
(* __init__.py: the entry is set up, updated by its timer and unloaded.    *)
(* The update reads the clock to the second: `late` says that it reads the *)
(* last 5 seconds of the hour `now`.  Every instant the scheduler compares *)
(* with is a whole hour, except now + 5 minutes, which lies in the next    *)
(* hour when it is used.                                                   *)

\* const.py SENSOR_TODAY, SENSOR_TOMORROW and BINARY_SENSOR_ON_SHIFT: the
\* entities that share WorkshiftEntityMixin.
MixinEntities == {"today_shift", "tomorrow_shift", "on_shift"}

\* raw.get(key), None shown as NoEntity.
EntityOf(raw, key) == IF key \in DOMAIN raw THEN raw[key] ELSE NoEntity

\* WorkshiftConfigData as _config_entry_to_data builds it, in the terms of
\* the resolver: the date <<2024, 1, d>> is day d and a start time is the
\* hour of its HH:MM string.
WorkshiftConfigData(raw) ==
  [shift_duration |-> raw.shift_hours,
   pattern |-> raw.schedule_string,
   start_times |-> [i \in 1..Len(raw.shift_starts) |->
                      _strptime_hm(raw.shift_starts[i]) \div 60],
   base_date |-> raw.schedule_start_date[3],
   use_workday_sensor |-> IF "use_workday_sensor" \in DOMAIN raw
                          THEN raw.use_workday_sensor ELSE FALSE,
   workday_today |-> EntityOf(raw, "workday_entity_today"),
   workday_tomorrow |->
     IF EntityOf(raw, "workday_entity_tomorrow") # NoEntity
     THEN EntityOf(raw, "workday_entity_tomorrow")
     ELSE EntityOf(raw, "workday_entity_today")]

\* _resolve_current_shift(hass, config, schedule, now)
_resolve_current_shift ==
  LET today == DateOf(now)
      info_today == _resolve_shift_for_day(today, FALSE)
      yesterday == today - 1
      shift_info == get_shift_info(yesterday)
      info_yesterday == _localize_shift_info(shift_info, yesterday)
  IN IF info_today.raised THEN Raised
     ELSE IF info_today.some /\ info_today.start <= now
                             /\ now < info_today.end
     THEN info_today
     ELSE IF shift_info.raised THEN Raised
     ELSE IF ~shift_info.some THEN NoShift
     ELSE IF info_yesterday.start <= now /\ now < info_yesterday.end
     THEN IF ~use_workday_sensor THEN info_yesterday
          ELSE IF _is_workday_for_date(yesterday, TRUE, FALSE)
          THEN info_yesterday
          ELSE NoShift
     ELSE NoShift

\* The part of _async_update_state that fills the runtime data.
_async_update_state(rt) ==
  LET today_shift == _resolve_shift_for_day(DateOf(now), FALSE)
      tomorrow_shift == _resolve_shift_for_day(DateOf(now + HoursPerDay), TRUE)
  IN [rt EXCEPT !.today_shift = today_shift,
                !.tomorrow_shift = tomorrow_shift,
                !.today_is_workday = today_shift.some,
                !.tomorrow_is_workday = tomorrow_shift.some,
                !.current_shift = _resolve_current_shift]

\* An exception left the resolvers: the update stops before it notifies and
\* before it schedules.
UpdateRaised(rt) ==
  rt.today_shift.raised \/ rt.tomorrow_shift.raised \/ rt.current_shift.raised

\* The start and end of the shifts the runtime data hold.
ShiftTimes(rt) ==
  UNION {IF info.some THEN {info.start, info.end} ELSE {} :
           info \in {rt.today_shift, rt.tomorrow_shift, rt.current_shift}}

\* min(...) of a set of instants that is not empty.
Earliest(times) == CHOOSE t \in times : \A u \in times : t <= u

\* A plausible slip: the instants that are not later than now are kept.
_schedule_next_update_unfiltered(rt) ==
  LET next_midnight == Combine(DateOf(now + HoursPerDay), 0)
      times == ShiftTimes(rt) \cup {next_midnight}
  IN Earliest(times)

\* _schedule_next_update: the instant the timer is armed for.  A whole hour
\* is more than 5 seconds after now when it is after the hour of now, and
\* after the next hour when the clock reads the last 5 seconds of its hour.
_schedule_next_update(rt) ==
  LET next_midnight == Combine(DateOf(now + HoursPerDay), 0)
      times == ShiftTimes(rt) \cup {next_midnight}
      threshold == IF late THEN now + 1 ELSE now
      later == {t \in times : t > threshold}
  IN IF later = {} THEN now + 1 ELSE Earliest(later)

\* A plausible slip: the runtime data are dropped and the timer is left
\* pending.
async_unload_entry_keep_timer(unload_ok) ==
  IF unload_ok
  THEN [runtime |-> NoRuntime, timers |-> timers["entry"],
        timer_cancel |-> NoTimer]
  ELSE [runtime |-> runtime, timers |-> timers["entry"],
        timer_cancel |-> timer_cancel["entry"]]

\* async_unload_entry: what it leaves of the runtime data, of the host's
\* pending timers and of the cancel handle, for either result of unloading
\* the platforms.
async_unload_entry(unload_ok) ==
  IF unload_ok
  THEN [runtime |-> NoRuntime,
        timers |-> Cancel(timers["entry"], timer_cancel["entry"]),
        timer_cancel |-> NoTimer]
  ELSE [runtime |-> runtime, timers |-> timers["entry"],
        timer_cancel |-> timer_cancel["entry"]]

\* A plausible slip: the callback stays in the list when the entity is
\* removed.
WorkshiftEntityMixin_async_will_remove_from_hass_keep(callbacks, entity) ==
  callbacks

\* WorkshiftEntityMixin.async_will_remove_from_hass: list.remove drops the
\* first occurrence of the entity's callback.
WorkshiftEntityMixin_async_will_remove_from_hass(callbacks, entity) ==
  IF \E i \in 1..Len(callbacks) : callbacks[i] = entity
  THEN RemoveOne(callbacks, entity)
  ELSE callbacks

\* WorkshiftEntityMixin.async_added_to_hass
WorkshiftEntityMixin_async_added_to_hass(callbacks, entity) ==
  IF \A i \in 1..Len(callbacks) : callbacks[i] # entity
  THEN Append(callbacks, entity)
  ELSE callbacks

\* The host removes the entities of the set, one after the other.
RECURSIVE RemoveEntities(_, _)
RemoveEntities(callbacks, entities) ==
  IF entities = {} THEN callbacks
  ELSE LET entity == CHOOSE e \in entities : TRUE
       IN RemoveEntities(
            WorkshiftEntityMixin_async_will_remove_from_hass(callbacks, entity),
            entities \ {entity})

\* Entries of the package's wizard: two shifts of 8 hours that start at
\* 00:00 and at 22:00, a schedule that starts on day 1, and the override
\* switched on with today's workday entity or switched off.
EntrySchedules == {<<"2", "0">>, <<"1", "0">>}

EntryInput(schedule, use_workday) ==
  LET general ==
        [entry_name |-> "Night", use_workday_sensor |-> use_workday,
         shift_hours |-> DefaultShiftDuration, shifts_per_day |-> 2,
         shift_starts |-> <<(<<"0", "0", ":", "0", "0">>),
                            (<<"2", "2", ":", "0", "0">>)>>,
         schedule_start_date |-> <<2024, 1, 1>>,
         schedule_string |-> schedule]
  IN IF use_workday
     THEN Update(general, [workday_entity_today |-> "binary_sensor.workday"])
     ELSE general

EntryInputs ==
  {EntryInput(schedule, use_workday) :
     schedule \in EntrySchedules, use_workday \in BOOLEAN}

\* An entry the registry holds with its start times out of order.
UnorderedEntry ==
  [EntryInput(<<"2", "0">>, FALSE) EXCEPT
     !.shift_starts = <<(<<"2", "2", ":", "0", "0">>),
                        (<<"0", "0", ":", "0", "0">>)>>]

\* No configuration object exists while the entry is not loaded: the
\* resolver's configuration is at rest, as ResolverAtRest has it.
NoConfig ==
  [shift_duration |-> DefaultShiftDuration, pattern |-> <<"1", "2">>,
   start_times |-> <<0, 22>>, base_date |-> 1,
   use_workday_sensor |-> FALSE, workday_today |-> NoEntity,
   workday_tomorrow |-> NoEntity]

\* The host before the entry is set up, at the instant start_now.
InitEntryAt(start_now, entries) ==
  /\ shift_duration = NoConfig.shift_duration
  /\ pattern = NoConfig.pattern
  /\ start_times = NoConfig.start_times
  /\ base_date = NoConfig.base_date
  /\ manual_days_off = _parse_manual_days_off(<<>>)
  /\ use_workday_sensor = NoConfig.use_workday_sensor
  /\ workday_today = NoConfig.workday_today
  /\ workday_tomorrow = NoConfig.workday_tomorrow
  /\ hass_states = [e \in Entities |->
                      IF e = "binary_sensor.workday" THEN "on" ELSE NoState]
  /\ hass_attributes = NoAttributes
  /\ now = start_now
  /\ late = FALSE
  /\ call = Idle
  /\ added = [e \in MixinEntities |-> FALSE]
  /\ timers = [x \in {"entry"} |-> <<>>]
  /\ timer_cancel = [x \in {"entry"} |-> NoTimer]
  /\ subscriptions = [x \in {"entry"} |-> 0]
  /\ attr_is_on = FALSE
  /\ attr_native_value = NoShift
  /\ attr_event = NoShift
  /\ last_refresh = NoRefresh
  /\ flow = NoFlow
  /\ language = <<"en">>
  /\ translations =
       [lang \in LanguageFiles |-> TranslationFile(FALSE, FALSE, "")]
  /\ config_entry \in entries
  /\ runtime = NoRuntime
  /\ listeners = <<>>
  /\ notified = <<>>

\* async_setup_entry: the configuration is built from the entry, the runtime
\* data are stored with an empty listener list, and _async_start_scheduler
\* runs the first update, which arms the timer.  The entry is not ready when
\* _config_entry_to_data raises.
AsyncSetupEntry ==
  /\ ~runtime.loaded
  /\ UNCHANGED <<setup_vars, call, added, subscriptions, attr_is_on,
                 attr_native_value, attr_event>>
  /\ IF ~_config_entry_to_data(config_entry)
     THEN /\ last_refresh' = Refresh("entry", "not_ready")
          /\ UNCHANGED <<config_vars, host_vars, late, runtime, listeners,
                         notified, timers, timer_cancel>>
     ELSE LET config == WorkshiftConfigData(config_entry) IN
          /\ shift_duration' = config.shift_duration
          /\ pattern' = config.pattern
          /\ start_times' = config.start_times
          /\ base_date' = config.base_date
          /\ manual_days_off' = <<>>
          /\ use_workday_sensor' = config.use_workday_sensor
          /\ workday_today' = config.workday_today
          /\ workday_tomorrow' = config.workday_tomorrow
          /\ UNCHANGED <<host_vars, late>>
          /\ listeners' = <<>>
          /\ notified' = <<>>
          /\ LET fresh == _async_update_state(
                            [NoRuntime EXCEPT !.loaded = TRUE,
                                              !.config = config_entry])'
                 target == _schedule_next_update(fresh)
             IN IF UpdateRaised(fresh)
                THEN /\ runtime' = [NoRuntime EXCEPT !.loaded = TRUE,
                                                     !.config = config_entry]
                     /\ UNCHANGED <<timers, timer_cancel>>
                ELSE /\ runtime' = fresh
                     /\ timers' = [timers EXCEPT
                          !["entry"] = Rearm(@, NoTimer, target)]
                     /\ timer_cancel' = [timer_cancel EXCEPT
                          !["entry"] = target]
          /\ last_refresh' = Refresh("entry", "setup")

\* The timer's callback, called by the host for a due timer:
\* _async_update_state refreshes the runtime data, calls the listeners and
\* schedules the next update.
UpdateTimerFired ==
  /\ runtime.loaded
  /\ \E i \in 1..Len(timers["entry"]) :
        /\ timers["entry"][i] <= now
        /\ LET pending == RemoveOne(timers["entry"], timers["entry"][i])
               fresh == _async_update_state(runtime)
               target == _schedule_next_update(fresh)
           IN IF UpdateRaised(fresh)
              THEN /\ timers' = [timers EXCEPT !["entry"] = pending]
                   /\ UNCHANGED <<runtime, notified, timer_cancel>>
              ELSE /\ runtime' = fresh
                   /\ notified' = listeners
                   /\ timers' = [timers EXCEPT
                        !["entry"] = Rearm(pending, timer_cancel["entry"],
                                           target)]
                   /\ timer_cancel' = [timer_cancel EXCEPT
                        !["entry"] = target]
  /\ last_refresh' = Refresh("entry", "timer")
  /\ UNCHANGED <<setup_vars, config_vars, host_vars, late, call, listeners,
                 added, subscriptions, attr_is_on, attr_native_value,
                 attr_event>>

\* async_unload_entry.  When the host has unloaded the platforms it has
\* removed their entities, and each has taken its callback off the list;
\* the configuration object goes with the runtime data.
AsyncUnloadEntry ==
  /\ runtime.loaded
  /\ \E unload_ok \in BOOLEAN :
        LET left == async_unload_entry(unload_ok)
            config == IF left.runtime.loaded
                      THEN WorkshiftConfigData(runtime.config)
                      ELSE NoConfig
        IN
        /\ shift_duration' = config.shift_duration
        /\ pattern' = config.pattern
        /\ start_times' = config.start_times
        /\ base_date' = config.base_date
        /\ use_workday_sensor' = config.use_workday_sensor
        /\ workday_today' = config.workday_today
        /\ workday_tomorrow' = config.workday_tomorrow
        /\ runtime' = left.runtime
        /\ timers' = [timers EXCEPT !["entry"] = left.timers]
        /\ timer_cancel' = [timer_cancel EXCEPT !["entry"] = left.timer_cancel]
        /\ added' = IF unload_ok THEN [e \in MixinEntities |-> FALSE]
                    ELSE added
        /\ listeners' =
             IF unload_ok
             THEN RemoveEntities(listeners, {e \in MixinEntities : added[e]})
             ELSE listeners
        /\ last_refresh' = Refresh("entry", IF unload_ok THEN "unloaded"
                                             ELSE "unload_failed")
  /\ UNCHANGED <<setup_vars, manual_days_off, host_vars, late, call,
                 notified, subscriptions, attr_is_on, attr_native_value,
                 attr_event>>

\* The options flow of the loaded entry ends: the registry holds another
\* schedule for it.  The reload that follows is an unload and a setup.
OptionsChanged ==
  /\ runtime.loaded
  /\ \E schedule \in EntrySchedules \ {config_entry.schedule_string} :
        config_entry' = [config_entry EXCEPT !.schedule_string = schedule]
  /\ last_refresh' = NoRefresh
  /\ UNCHANGED <<flow, language, translations, config_vars, host_vars, late,
                 call, runtime, listeners, notified, added, timers,
                 timer_cancel, subscriptions, attr_is_on, attr_native_value,
                 attr_event>>

\* A platform adds an entity of the loaded entry to the host.
EntityAdded ==
  /\ runtime.loaded
  /\ \E entity \in MixinEntities :
        /\ ~added[entity]
        /\ added' = [added EXCEPT ![entity] = TRUE]
        /\ listeners' =
             WorkshiftEntityMixin_async_added_to_hass(listeners, entity)
  /\ last_refresh' = NoRefresh
  /\ UNCHANGED <<setup_vars, config_vars, host_vars, late, call, runtime,
                 notified, timers, timer_cancel, subscriptions, attr_is_on,
                 attr_native_value, attr_event>>

\* The host removes an entity.
EntityRemoved ==
  /\ \E entity \in MixinEntities :
        /\ added[entity]
        /\ added' = [added EXCEPT ![entity] = FALSE]
        /\ listeners' =
             WorkshiftEntityMixin_async_will_remove_from_hass(listeners,
                                                              entity)
  /\ last_refresh' = NoRefresh
  /\ UNCHANGED <<setup_vars, config_vars, host_vars, late, call, runtime,
                 notified, timers, timer_cancel, subscriptions, attr_is_on,
                 attr_native_value, attr_event>>

\* Today's workday entity changes state; the scheduler is not subscribed.
WorkdayChanged ==
  /\ \E state \in {"on", "off"} :
        /\ state # hass_states["binary_sensor.workday"]
        /\ hass_states' =
             [hass_states EXCEPT !["binary_sensor.workday"] = state]
  /\ last_refresh' = NoRefresh
  /\ UNCHANGED <<setup_vars, config_vars, hass_attributes, now, late, call,
                 runtime, listeners, notified, added, timers, timer_cancel,
                 subscriptions, attr_is_on, attr_native_value, attr_event>>

\* The clock moves on, within its hour to the last 5 seconds or to the next
\* hour.  The host fires a timer at its instant, so the clock does not pass
\* a timer that is due.
EntryTick ==
  /\ \A i \in 1..Len(timers["entry"]) : timers["entry"][i] > now
  /\ \/ /\ ~late
        /\ late' = TRUE
        /\ now' = now
     \/ /\ now + 1 \in Instants
        /\ late' = FALSE
        /\ now' = now + 1
  /\ last_refresh' = NoRefresh
  /\ UNCHANGED <<setup_vars, config_vars, hass_states, hass_attributes, call,
                 runtime, listeners, notified, added, timers, timer_cancel,
                 subscriptions, attr_is_on, attr_native_value, attr_event>>

InitEntry == InitEntryAt(Combine(1, 0), EntryInputs \cup {UnorderedEntry})

NextEntry ==
  \/ AsyncSetupEntry \/ UpdateTimerFired \/ AsyncUnloadEntry
  \/ OptionsChanged \/ WorkdayChanged \/ EntryTick

SpecEntry == InitEntry /\ [][NextEntry]_vars

\* The entities of a loaded entry come and go late on the last day, while
\* the timer of the 22:00 shift fires.
InitListeners ==
  InitEntryAt(Combine(MaxDay, 21), {EntryInput(<<"2">>, FALSE)})

NextListeners ==
  \/ AsyncSetupEntry \/ UpdateTimerFired \/ AsyncUnloadEntry
  \/ EntityAdded \/ EntityRemoved \/ EntryTick

SpecListeners == InitListeners /\ [][NextListeners]_vars

----------------------------------------------------------------------------
(* binary_sensor.py: the on-shift sensor alone, with a schedule whose next *)
(* shift may lie further ahead than the pattern is long.                   *)

InitActive ==
  /\ shift_duration = DefaultShiftDuration
  /\ pattern \in {<<"2">>, <<"1", "0">>}
  /\ start_times = <<0, 22>>
  /\ base_date \in {1, MaxDay}
  /\ \E entries \in {<<>>, <<(<<1, 2>>)>>} :
        manual_days_off = _parse_manual_days_off(entries)
  /\ use_workday_sensor = FALSE
  /\ workday_today = NoEntity
  /\ workday_tomorrow = NoEntity
  /\ hass_states = [e \in Entities |-> NoState]
  /\ hass_attributes = NoAttributes
  /\ now = Combine(1, 0)
  /\ call = Idle
  /\ added = [x \in {"active"} |-> FALSE]
  /\ timers = [x \in {"active"} |-> <<>>]
  /\ timer_cancel = [x \in {"active"} |-> NoTimer]
  /\ subscriptions = [x \in {"active"} |-> 0]
  /\ attr_is_on = FALSE
  /\ attr_native_value = NoShift
  /\ attr_event = NoShift
  /\ last_refresh = NoRefresh
  /\ SetupAbsent
  /\ EntryAbsent

NextActive == ActiveAdded \/ ActiveTimerFired \/ ActiveRemoved \/ Tick

SpecActive == InitActive /\ [][NextActive]_vars

----------------------------------------------------------------------------
(* The on-shift sensor and the sensor of today, of one entry with the      *)
(* workday override, while the workday entity changes state.               *)

InitAgree ==
  /\ shift_duration = DefaultShiftDuration
  /\ pattern \in {<<"1", "2">>, <<"2", "0">>}
  /\ start_times = <<0, 22>>
  /\ base_date = 1
  /\ manual_days_off = _parse_manual_days_off(<<>>)
  /\ use_workday_sensor = TRUE
  /\ workday_today = "binary_sensor.workday"
  /\ workday_tomorrow \in {workday_today, "binary_sensor.workday_tomorrow"}
  /\ hass_states = [e \in Entities |->
                      IF e \in {workday_today, workday_tomorrow}
                      THEN "on" ELSE NoState]
  /\ hass_attributes = NoAttributes
  /\ now = Combine(1, 0)
  /\ call = Idle
  /\ added = [x \in {"active", "day"} |-> FALSE]
  /\ timers = [x \in {"active", "day"} |-> <<>>]
  /\ timer_cancel = [x \in {"active", "day"} |-> NoTimer]
  /\ subscriptions = [x \in {"active", "day"} |-> 0]
  /\ attr_is_on = FALSE
  /\ attr_native_value = NoShift
  /\ attr_event = NoShift
  /\ last_refresh = NoRefresh
  /\ SetupAbsent
  /\ EntryAbsent

NextAgree ==
  \/ ActiveAdded \/ ActiveTimerFired
  \/ DayAdded \/ DayTimerFired
  \/ StateChanged \/ Tick

SpecAgree == InitAgree /\ [][NextAgree]_vars

----------------------------------------------------------------------------
(* WorkshiftSchedule.__init__ on a config dict whose manual_days_off holds *)
(* entries in any order of bounds, without an end, or with a date that     *)
(* does not parse.                                                         *)

\* The entries of the config: "start" is a date or one that is missing or
\* does not parse, and so is "end", which may also be absent.
ManualEntryInputs ==
  UNION {[1..n -> ((1..MaxDay) \cup {BadDate})
                    \X ((1..MaxDay) \cup {BadDate, NoEnd})] : n \in 0..2}

InitManual ==
  /\ shift_duration = DefaultShiftDuration
  /\ pattern \in {<<"1">>, <<"2", "1">>}
  /\ start_times = <<0, 22>>
  /\ base_date = 1
  /\ manual_days_off = _parse_manual_days_off(<<>>)
  /\ use_workday_sensor = FALSE
  /\ workday_today = NoEntity
  /\ workday_tomorrow = NoEntity
  /\ hass_states = [e \in Entities |-> NoState]
  /\ hass_attributes = NoAttributes
  /\ now = Combine(1, 12)
  /\ AdaptersAbsent
  /\ SetupAbsent
  /\ EntryAbsent
  /\ call = Idle

\* WorkshiftSchedule(hass, config), and the sensor's own copy of the parse:
\* the resolver is constructed anew with the entries the config holds.
ConstructManual ==
  /\ call.op = "idle"
  /\ \E entries \in ManualEntryInputs :
        /\ manual_days_off' = _parse_manual_days_off(entries)
        /\ call' = [op |-> "_parse_manual_days_off", entries |-> entries]
  /\ UNCHANGED <<entry_vars, setup_vars, shift_duration, pattern, start_times,
                 base_date, use_workday_sensor, workday_today,
                 workday_tomorrow, host_vars, adapter_vars>>

NextManual == ConstructManual \/ GetShift \/ Return

SpecManual == InitManual /\ [][NextManual]_vars

----------------------------------------------------------------------------
(* The on-shift computation of binary_sensor.py beside shift_covering of   *)
(* schedule.py, both over one configuration, clock and workday entity.     *)

InitEquiv ==
  /\ shift_duration \in {1, DefaultShiftDuration, 24, 27}
  /\ pattern \in (UNION {[1..n -> {"0", "1", "2"}] : n \in 0..MaxPatternLen}
                  \cup {<<"x">>})
  /\ start_times \in {<<22>>, <<0, 22>>, <<22, 0>>}
  /\ base_date = 1
  /\ \E entries \in {<<>>, <<(<<1, NoEnd>>)>>} :
        manual_days_off = _parse_manual_days_off(entries)
  /\ use_workday_sensor \in BOOLEAN
  /\ workday_today =
       IF use_workday_sensor THEN "binary_sensor.workday" ELSE NoEntity
  /\ workday_tomorrow = workday_today
  /\ \E state \in {NoState, "on", "off", "Off"} :
        hass_states = [e \in Entities |->
                         IF e = workday_today THEN state ELSE NoState]
  /\ hass_attributes = NoAttributes
  /\ now \in {Combine(d, h) : d \in 1..2, h \in {0, 5, 6, 22}}
  /\ AdaptersAbsent
  /\ SetupAbsent
  /\ EntryAbsent
  /\ call = Idle

\* The sensor computes its state and the resolver is asked for the shift
\* that covers the same instant.
IsShiftActiveNow ==
  /\ call.op = "idle"
  /\ call' = [op |-> "_is_shift_active_now",
              result |-> _is_shift_active_now,
              covering |-> shift_covering(now)]
  /\ UNCHANGED <<entry_vars, setup_vars, config_vars, host_vars,
                 adapter_vars>>

NextEquiv == IsShiftActiveNow \/ Return

SpecEquiv == InitEquiv /\ [][NextEquiv]_vars

----------------------------------------------------------------------------
(* What the claims speak of, stated from the configuration alone.          *)

\* The date lies inside a manual day-off range, bounds inclusive.
InManualRange(day) ==
  \E i \in DOMAIN manual_days_off :
     day >= manual_days_off[i][1] /\ day <= manual_days_off[i][2]

\* The pattern character of a date on or after the anchor.
PatternChar(day) == pattern[((day - base_date) % Len(pattern)) + 1]

\* The occurrence covers the instant: start <= t < end.
Covers(occ, t) == occ.some /\ occ.start <= t /\ t < occ.end

\* The occurrence ends after the instant.
EndsAfter(occ, t) == occ.some /\ occ.end > t

----------------------------------------------------------------------------
(* C1 *)

C1Case ==
  /\ call.op = "get_shift"
  /\ call.day >= base_date
  /\ ~InManualRange(call.day)
  /\ ~use_workday_sensor
  /\ pattern # <<>>
  /\ IsDigit(PatternChar(call.day))

\* C1 as claimed: get_shift(d), for d >= base_date outside every manual
\* range and with the override disabled, returns None when the pattern digit
\* of d is 0 and otherwise an occurrence with that digit as code, starting on
\* d at start_times[digit - 1].
C1_AsClaimed ==
  C1Case =>
    LET digit == IntOf(PatternChar(call.day)) IN
    IF digit = 0 THEN ~call.result.some
    ELSE /\ call.result.some
         /\ call.result.code = digit
         /\ call.result.start = Combine(call.day, start_times[digit])

\* C1, amended: the same, except that a digit larger than the number of
\* configured start times also gives None.
C1_GetShiftByDigit ==
  C1Case =>
    LET digit == IntOf(PatternChar(call.day)) IN
    IF digit = 0 \/ digit > Len(start_times) THEN ~call.result.some
    ELSE /\ call.result.some
         /\ call.result.code = digit
         /\ call.result.start = Combine(call.day, start_times[digit])

C1_Witness ==
  /\ C1Case
  /\ IntOf(PatternChar(call.day)) = 2
  /\ call.result.some
  /\ call.result.code = 2
  /\ call.day > base_date

----------------------------------------------------------------------------
(* C2 *)

\* C2: a date inside a manual day-off range (bounds inclusive) resolves to
\* no shift, whatever the pattern digit and the workday signals are.
C2_ManualDayOff ==
  (call.op = "get_shift" /\ InManualRange(call.day)) => ~call.result.some

\* The last day of a two-day range, on which the pattern alone gives a shift.
C2_Witness ==
  /\ call.op = "get_shift"
  /\ \E i \in DOMAIN manual_days_off :
        /\ manual_days_off[i][1] < manual_days_off[i][2]
        /\ call.day = manual_days_off[i][2]
  /\ call.day >= base_date
  /\ pattern # <<>>
  /\ IsDigit(PatternChar(call.day))
  /\ IntOf(PatternChar(call.day)) \in 1..Len(start_times)
  /\ ~call.result.some

----------------------------------------------------------------------------
(* C3 *)

\* C3 as claimed: in every resolver, a date before base_date resolves to no
\* shift (stated for the durations of 1 to 24 hours that both wizards offer).
C3_NoShiftBeforeAnchor ==
  (/\ call.op \in {"get_shift", "get_shift_info"}
   /\ call.day < base_date
   /\ shift_duration \in 1..24)
    => ~call.result.some

----------------------------------------------------------------------------
(* C4 *)

\* C4: an occurrence returned by shift_covering(t) has start <= t < end.
C4_CoverageConsistency ==
  (call.op = "shift_covering" /\ call.result.some) =>
    (call.result.start <= call.moment /\ call.moment < call.result.end)

\* The last covered instant of an overnight occurrence, asked for on the date
\* after the one it starts on.
C4_Witness ==
  /\ call.op = "shift_covering"
  /\ call.result.some
  /\ DateOf(call.result.start) < DateOf(call.moment)
  /\ call.moment = call.result.end - 1

----------------------------------------------------------------------------
(* C5 *)

C5Case == call.op = "shift_covering" /\ shift_duration <= 24

\* Some date's occurrence covers the instant.  An occurrence of at most 24
\* hours that covers t starts on the date of t or on an earlier one.
C5SomeDateCovers ==
  \E x \in (DateOf(call.moment) - MaxDay)..(DateOf(call.moment) + 1) :
     Covers(get_shift(x), call.moment)

\* C5 as claimed: for durations of at most 24 hours, shift_covering(t)
\* returns an occurrence whenever some date's occurrence covers t, and for an
\* instant inside the previous date's overnight shift it returns that
\* previous date's occurrence.
C5_AsClaimed ==
  C5Case =>
    /\ C5SomeDateCovers => call.result.some
    /\ Covers(get_shift(DateOf(call.moment) - 1), call.moment)
         => call.result = get_shift(DateOf(call.moment) - 1)

\* C5, amended: for durations of at most 24 hours, shift_covering(t) returns
\* an occurrence whenever some date's occurrence covers t; it is the
\* occurrence of the date of t when that one covers t, and otherwise the
\* previous date's overnight occurrence.
C5_CoveringComplete ==
  C5Case =>
    LET today_occ == get_shift(DateOf(call.moment))
        yesterday_occ == get_shift(DateOf(call.moment) - 1)
    IN /\ C5SomeDateCovers => call.result.some
       /\ Covers(today_occ, call.moment) => call.result = today_occ
       /\ (Covers(yesterday_occ, call.moment)
             /\ ~Covers(today_occ, call.moment))
            => call.result = yesterday_occ

\* After midnight, inside the shift that started the evening before.
C5_Witness ==
  /\ C5Case
  /\ call.result.some
  /\ DateOf(call.result.start) = DateOf(call.moment) - 1
  /\ call.result.start < call.moment
  /\ call.moment < call.result.end
  /\ get_shift(DateOf(call.moment)).some

----------------------------------------------------------------------------
(* C8 *)

\* C8: when a date and the date len(pattern) days later both resolve to an
\* occurrence, the two occurrences have the same shift code.
C8_CyclicPeriodicity ==
  (call.op = "get_shift" /\ call.result.some) =>
    LET later == get_shift(call.day + Len(pattern)) IN
    later.some => later.code = call.result.code

C8_Witness ==
  /\ call.op = "get_shift"
  /\ call.result.some
  /\ Len(pattern) = MaxPatternLen
  /\ pattern[1] # pattern[2]
  /\ get_shift(call.day + Len(pattern)).some
  /\ get_shift(call.day + 1).some
  /\ get_shift(call.day + 1).code # call.result.code

----------------------------------------------------------------------------
(* C9 *)

\* C9: every occurrence ends exactly shift_duration hours after its start,
\* whatever its shift code.
C9_DurationInvariant ==
  call.result.some => call.result.end - call.result.start = shift_duration

C9_Witness ==
  /\ call.op = "get_shift"
  /\ call.result.some
  /\ call.result.code = 2
  /\ shift_duration = 27
  /\ call.result.end = call.result.start + 27

----------------------------------------------------------------------------
(* C10 *)

\* C10 as claimed: for every configuration a wizard or the constructor
\* accepts, every occurrence has end strictly later than start.
C10_EndAfterStart ==
  (/\ RootWizardAcceptsShifts(shift_duration, Len(start_times))
   /\ call.op \in {"get_shift", "shift_covering"}
   /\ call.result.some)
    => call.result.end > call.result.start

----------------------------------------------------------------------------
(* C6 *)

C6Case == call.op = "next_shift_after" /\ call.result.some

\* C6 as claimed: next_shift_after(t) is None or an occurrence that starts
\* strictly after t, and no other occurrence starts after t and before it.
C6_AsClaimed ==
  (C6Case /\ call.search_days = DefaultSearchDays) =>
    /\ call.result.start > call.moment
    /\ \A d \in DateOf(call.moment)..DateOf(call.result.start) :
          LET other == get_shift(d) IN
          ~(/\ other.some
            /\ other.start > call.moment
            /\ other.start < call.result.start)

\* C6, amended: next_shift_after(t) is None or an occurrence that ends
\* strictly after t (it may have started at or before t), and no occurrence
\* of an earlier date, from the date of t on, ends after t.
C6_NextEndsAfter ==
  C6Case =>
    /\ call.result.end > call.moment
    /\ \A d \in DateOf(call.moment)..(DateOf(call.result.start) - 1) :
          ~EndsAfter(get_shift(d), call.moment)

\* The returned shift is already running at t, and an earlier date of the
\* scan had a shift that was over by t.
C6_Witness ==
  /\ C6Case
  /\ call.search_days = DefaultSearchDays
  /\ call.result.start < call.moment
  /\ call.moment < call.result.end
  /\ DateOf(call.result.start) = DateOf(call.moment)
  /\ get_shift(DateOf(call.moment) - 1).some

----------------------------------------------------------------------------
(* C7 *)

\* C7: next_shift_after(t, n) returns the occurrence of the first of the n
\* dates from the date of t whose occurrence ends after t, returns None and
\* raises nothing when there is none, and makes at most n date lookups.
C7_ScanWindow ==
  call.op = "next_shift_after" =>
    LET first_day == DateOf(call.moment)
        last_day == first_day + call.search_days - 1
    IN /\ call.lookups <= call.search_days
       /\ ~call.result.raised
       /\ IF call.result.some
          THEN LET found == DateOf(call.result.start) IN
               /\ found \in first_day..last_day
               /\ call.result = get_shift(found)
               /\ EndsAfter(call.result, call.moment)
               /\ \A d \in first_day..(found - 1) :
                     ~EndsAfter(get_shift(d), call.moment)
          ELSE \A d \in first_day..last_day :
                  ~EndsAfter(get_shift(d), call.moment)

\* Nothing in a window of two days, although the day after has a shift.
C7_Witness ==
  /\ call.op = "next_shift_after"
  /\ call.search_days = 2
  /\ ~call.result.some
  /\ call.lookups = 2
  /\ EndsAfter(get_shift(DateOf(call.moment) + 2), call.moment)


----------------------------------------------------------------------------
(* The workday override, stated from the configuration and the signals.    *)

OverrideOps == {"get_shift", "day_code", "active_code",
                "resolve_shift_for_day"}

\* The code of a date with the override disabled.
PlainCode(day) ==
  IF InManualRange(day) \/ pattern = <<>> \/ day < base_date THEN 0
  ELSE IF ~IsDigit(PatternChar(day)) THEN 0
  ELSE IntOf(PatternChar(day))

\* The occurrence of a date with the override disabled.
PlainShift(day) ==
  LET code == PlainCode(day) IN
  IF code = 0 \/ code > Len(start_times) THEN NoShift
  ELSE ShiftInstance(code, Combine(day, start_times[code]),
                     Combine(day, start_times[code]) + shift_duration,
                     (day - base_date) % Len(pattern))

\* What the resolver of the call returns for the date with the override
\* disabled.
PlainResult ==
  CASE call.op = "get_shift" -> PlainShift(call.day)
    [] call.op \in {"day_code", "active_code"} ->
         CodeResult(PlainCode(call.day))
    [] call.op = "resolve_shift_for_day" ->
         LET info == get_shift_info(call.day) IN
         IF info.some THEN _localize_shift_info(info, call.day) ELSE info

\* The workday entity whose signal applies to the date of the call: today's
\* for the evaluation day, tomorrow's (or else today's) for the day after.
\* The binary sensor looks at the evaluation day only.
ApplicableEntity ==
  IF call.day = DateOf(now) THEN workday_today
  ELSE IF call.day = DateOf(now) + 1 /\ call.op # "active_code"
  THEN workday_tomorrow
  ELSE NoEntity

\* The call is about a date on which a workday signal applies.
OverrideDay ==
  \/ call.day = DateOf(now)
  \/ call.day = DateOf(now) + 1 /\ call.op # "active_code"

Unrecognised(state) ==
  Lower(state) \notin {"on", "true", "1", "off", "false", "0"}

----------------------------------------------------------------------------
(* C11 *)

\* C11: with the configuration and the signal states fixed, resolving a date
\* gives the same result whatever the wall-clock time is: a step that changes
\* nothing but the clock changes the result of get_shift for no date.
C11_ClockIndependent ==
  [][(UNCHANGED <<entry_vars, setup_vars, config_vars, hass_states, hass_attributes>>)
       => \A d \in Days : get_shift(d)' = get_shift(d)]_vars

----------------------------------------------------------------------------
(* C12 *)

\* C12: with the override enabled, a date other than the evaluation day and
\* the day after it resolves as with the override disabled, whatever the
\* signal states are.
C12_OnlyTodayAndTomorrow ==
  (/\ use_workday_sensor
   /\ call.op \in {"get_shift", "day_code", "active_code"}
   /\ ~OverrideDay)
    => call.result = PlainResult

\* Both entities report a non-workday, and the date two days ahead keeps its
\* shift.
C12_Witness ==
  /\ use_workday_sensor
  /\ call.op = "day_code"
  /\ call.day = DateOf(now) + 2
  /\ workday_today # NoEntity
  /\ hass_states[workday_today] = "off"
  /\ hass_states[workday_tomorrow] = "off"
  /\ call.result.some

----------------------------------------------------------------------------
(* C13 *)

\* C13 as claimed: with the override enabled, each of the states "off",
\* "false" and "0" of the applicable workday entity makes the date resolve to
\* no shift, in every resolver.
C13_NonWorkdayStates ==
  (/\ use_workday_sensor
   /\ call.op \in OverrideOps
   /\ ApplicableEntity # NoEntity
   /\ hass_states[ApplicableEntity] \in {"off", "false", "0"})
    => ~call.result.some

----------------------------------------------------------------------------
(* C14 *)

\* C14 as claimed: with the override enabled, a workday entity that is not
\* configured, has no state or has an unrecognised state never suppresses:
\* the date resolves as with the override disabled and nothing is raised.
C14_MissingSignalIsWorkday ==
  (/\ use_workday_sensor
   /\ call.op \in OverrideOps
   /\ OverrideDay
   /\ \/ ApplicableEntity = NoEntity
      \/ hass_states[ApplicableEntity] = NoState
      \/ Unrecognised(hass_states[ApplicableEntity]))
    => (call.result = PlainResult /\ ~call.result.raised)

----------------------------------------------------------------------------
(* C15 *)

\* The entity reports a non-workday, as _workday_allowed reads it.
ReportsNonWorkday(entity_id) ==
  /\ entity_id # NoEntity
  /\ hass_states[entity_id] # NoState
  /\ Lower(hass_states[entity_id]) = "off"

\* C15: for the day after the evaluation day, get_shift gives no shift
\* exactly when the deciding entity reports a non-workday, and otherwise the
\* plain occurrence; the deciding entity is the configured tomorrow entity,
\* and today's entity when none is configured.
C15_TomorrowFallback ==
  (/\ use_workday_sensor
   /\ call.op = "get_shift"
   /\ call.day = DateOf(now) + 1)
    => LET decider == IF workday_entity_tomorrow # NoEntity
                      THEN workday_entity_tomorrow
                      ELSE workday_today
       IN call.result = IF ReportsNonWorkday(decider) THEN NoShift
                        ELSE PlainShift(call.day)

\* A tomorrow entity is configured and reports a workday while today's
\* reports a non-workday: tomorrow keeps its shift.
C15_Witness ==
  /\ use_workday_sensor
  /\ call.op = "get_shift"
  /\ call.day = DateOf(now) + 1
  /\ workday_today # NoEntity
  /\ workday_entity_tomorrow # NoEntity
  /\ hass_states[workday_today] = "off"
  /\ hass_states[workday_entity_tomorrow] = "on"
  /\ call.result.some

----------------------------------------------------------------------------
(* C16 *)

\* The pattern position of the date is malformed or out of range.
MalformedPosition(day) ==
  \/ pattern = <<>>
  \/ ~IsDigit(PatternChar(day))
  \/ IntOf(PatternChar(day)) > Len(start_times)

\* C16 as claimed: for every pattern and every date, in every resolver,
\* resolving raises nothing, and yields no shift when the pattern position of
\* the date is malformed or out of range (stated for a duration of 1 to 24
\* hours and at least one start time).
C16_NeverRaises ==
  (/\ call.op \in {"get_shift", "get_shift_info"}
   /\ shift_duration \in 1..24
   /\ Len(start_times) >= 1)
    => /\ ~call.result.raised
       /\ MalformedPosition(call.day) => ~call.result.some


----------------------------------------------------------------------------
(* C17 *)

\* Some date's occurrence covers the current instant (durations of at most
\* 24 hours: the occurrence of today or of yesterday).
SomeShiftCoversNow ==
  \/ Covers(PlainShift(DateOf(now)), now)
  \/ Covers(PlainShift(DateOf(now) - 1), now)

\* C17 as claimed: while the binary sensor is added and no timer of it is
\* due, its published state is on exactly when some shift covers the current
\* instant (stated with the workday override disabled).
C17_OnIffCovered ==
  (/\ "active" \in DOMAIN added
   /\ added["active"]
   /\ ~use_workday_sensor
   /\ ~Due("active"))
    => (attr_is_on <=> SomeShiftCoversNow)

----------------------------------------------------------------------------
(* C18 *)

\* C18 as claimed: an adapter that is not added has no pending timer and no
\* pending subscription.
C18_NothingPendingAfterRemoval ==
  \A a \in DOMAIN added :
     ~added[a] => (timers[a] = <<>> /\ subscriptions[a] = 0)

----------------------------------------------------------------------------
(* C19 *)

\* C19 as claimed: in every reachable state each adapter has at most one
\* pending timer.
C19_AtMostOneTimer ==
  \A a \in DOMAIN added : Len(timers[a]) <= 1

----------------------------------------------------------------------------
(* C20 *)

\* The timers an adapter holds after arming for the target.
Armed(target) == IF target = NoTimer THEN <<>> ELSE <<target>>

\* C20: right after a refresh cycle of the binary sensor or the calendar
\* (activation or timer firing), the published state is the one the resolver
\* gives for the current instant and the one pending timer is the one derived
\* from that state; right after a cycle of the day sensor the published value
\* is the freshly resolved one.
C20_RecomputeBeforeArm ==
  /\ last_refresh.adapter = "active" =>
       /\ attr_is_on = _is_shift_active_now
       /\ timers["active"] = Armed(_schedule_next_event(attr_is_on))
  /\ last_refresh.adapter = "calendar" =>
       /\ attr_event = _compute_current_event
       /\ timers["calendar"] = Armed(_schedule_refresh(attr_event))
  /\ last_refresh.adapter \in DaySensors =>
       attr_native_value =
         WorkshiftDaySensor_update_state(DayOffset(last_refresh.adapter))

\* The timer of a shift's start has fired: the sensor has turned on and the
\* timer now pending is the one for the shift's end.
C20_Witness ==
  /\ last_refresh = Refresh("active", "timer")
  /\ attr_is_on
  /\ Covers(PlainShift(DateOf(now)), now)
  /\ PlainShift(DateOf(now)).start = now
  /\ timers["active"] = <<now + shift_duration>>

----------------------------------------------------------------------------
(* C21 *)

\* The value a day sensor is to publish, stated from the configuration, the
\* clock and the signals: the code of the date offset days from today, 0
\* when the date has no shift or its workday entity reports a non-workday.
ExpectedDayCode(a) ==
  LET target == DateOf(now) + DayOffset(a)
      plain == PlainCode(target)
      entity_id == IF DayOffset(a) = 0 THEN workday_today
                   ELSE workday_tomorrow
  IN IF plain = 0 \/ plain > Len(start_times) THEN 0
     ELSE IF use_workday_sensor /\ ReportsNonWorkday(entity_id) THEN 0
     ELSE plain

----------------------------------------------------------------------------
(* C22 *)

\* C22: with the override enabled, a step in which a configured workday
\* entity changes state leaves every added day sensor with the value
\* resolved under the new signal states.
C22_StateChangeRepublishes ==
  [][\A a \in DaySensors \cap DOMAIN added :
        (use_workday_sensor /\ added[a] /\ hass_states' # hass_states)
          => /\ attr_native_value'.code = ExpectedDayCode(a)'
             /\ attr_native_value'.some <=> ExpectedDayCode(a)' # 0]_vars

\* The tomorrow entity has turned to "off" while the tomorrow sensor was
\* added, before any hour passed: the sensor shows 0 for a date whose
\* pattern digit is a shift.
C22_Witness ==
  /\ "day_tomorrow" \in DOMAIN added
  /\ added["day_tomorrow"]
  /\ now = Combine(1, 0)
  /\ last_refresh = NoRefresh
  /\ workday_tomorrow # workday_today
  /\ hass_states[workday_tomorrow] = "off"
  /\ hass_states[workday_today] = "on"
  /\ PlainCode(DateOf(now) + 1) # 0
  /\ ~attr_native_value.some

----------------------------------------------------------------------------
(* C23 *)

\* The dates whose occurrence can meet a range of the query instants.
QueryDates == (0 - 1)..(MaxDay + 2)

\* The occurrence overlaps the half-open range.
Overlaps(occ, start, end) == occ.end > start /\ occ.start < end

\* C23: for a shift duration of at most 24 hours, the range query returns
\* the event of a date's occurrence exactly when the occurrence ends after
\* the range's start and starts before its end; every returned event is the
\* event of some date's occurrence, and no event is returned twice.
C23_RangeQueryExact ==
  (call.op = "async_get_events" /\ shift_duration <= 24) =>
     /\ \A d \in QueryDates :
           get_shift(d).some =>
             (Overlaps(get_shift(d), call.start_date, call.end_date)
                <=> \E i \in 1..Len(call.result) :
                       call.result[i] = _format_event(get_shift(d)))
     /\ \A i \in 1..Len(call.result) :
           \E d \in QueryDates :
              get_shift(d).some /\ call.result[i] = _format_event(get_shift(d))
     /\ \A i, j \in 1..Len(call.result) :
           i # j => call.result[i] # call.result[j]

\* The range starts after midnight inside the overnight shift of the day
\* before and reaches the next shift: both events are returned.
C23_Witness ==
  /\ call.op = "async_get_events"
  /\ shift_duration <= 24
  /\ Len(call.result) = 2
  /\ DateOf(call.result[1].start) < DateOf(call.start_date)
  /\ call.result[1].end > call.start_date
  /\ call.result[2].start < call.end_date

----------------------------------------------------------------------------
(* C24 *)

\* The values of an entry, under the keys of the wizard that wrote it.
EntryShiftHours(e) ==
  IF "shift_hours" \in DOMAIN e THEN e.shift_hours ELSE e.shift_duration

EntryShiftsPerDay(e) ==
  IF "shifts_per_day" \in DOMAIN e THEN e.shifts_per_day ELSE e.num_shifts

EntryShiftStarts(e) ==
  IF "shift_starts" \in DOMAIN e THEN e.shift_starts ELSE e.start_times

EntrySchedule(e) ==
  IF "schedule_string" \in DOMAIN e THEN e.schedule_string ELSE e.schedule

\* C24 as claimed: every entry a wizard creates has a shift duration of 1 to
\* 24 hours and 1 to 9 shifts per day.
C24_EntryRanges ==
  config_entry # NoEntry =>
     /\ EntryShiftHours(config_entry) \in 1..24
     /\ EntryShiftsPerDay(config_entry) \in 1..9

----------------------------------------------------------------------------
(* C25 *)

\* One start time per shift, each a time of day, strictly ascending.
StartsWellFormed(starts, per_day) ==
  /\ Len(starts) = per_day
  /\ \A i \in 1..Len(starts) :
        /\ starts[i] # <<>>
        /\ _strptime_hm(starts[i]) \in 0..(HoursPerDay * 60 - 1)
  /\ \A i, j \in 1..Len(starts) :
        i < j => _strptime_hm(starts[i]) < _strptime_hm(starts[j])

\* C25: every entry a wizard creates has one start time per configured
\* shift, each a valid time of day, strictly ascending; and the setup-time
\* parser loads no entry whose start times are otherwise.
C25_StartTimesWellFormed ==
  /\ config_entry # NoEntry =>
        StartsWellFormed(EntryShiftStarts(config_entry),
                         EntryShiftsPerDay(config_entry))
  /\ (call.op = "async_setup_entry" /\ call.result = "loaded") =>
        StartsWellFormed(call.raw.shift_starts, call.raw.shifts_per_day)

\* The package's wizard has created an entry of two shifts whose start times
\* are stored in the HH:MM form.
C25_Witness ==
  /\ flow.handler = "package"
  /\ flow.step_id = "create_entry"
  /\ config_entry.shifts_per_day = 2
  /\ config_entry.shift_starts =
       <<(<<"0", "6", ":", "0", "0">>), (<<"2", "2", ":", "0", "0">>)>>

----------------------------------------------------------------------------
(* C26 *)

\* C26: every entry a wizard creates, the options flow included, has a
\* non-empty pattern of digits, each at most the number of shifts of the
\* same entry.
C26_PatternWithinShifts ==
  config_entry # NoEntry =>
     LET schedule == EntrySchedule(config_entry) IN
     /\ schedule # <<>>
     /\ \A i \in 1..Len(schedule) :
           /\ IsDigit(schedule[i])
           /\ IntOf(schedule[i]) <= EntryShiftsPerDay(config_entry)

\* The options flow has lowered the number of shifts of an entry whose
\* pattern used shift 2, and the entry it wrote has a pattern for one shift.
C26_Witness ==
  /\ flow.handler = "options"
  /\ flow.step_id = "create_entry"
  /\ flow.config_entry.shifts_per_day = 2
  /\ \E i \in 1..Len(flow.config_entry.schedule_string) :
        flow.config_entry.schedule_string[i] = "2"
  /\ config_entry.shifts_per_day = 1

----------------------------------------------------------------------------
(* C27 *)

\* The steps of a wizard in their order.
StepsInOrder(handler) ==
  IF handler = "root" THEN <<"user", "shifts", "start_times", "schedule">>
  ELSE <<"user", "shifts", "shift_times", "schedule">>

\* C27: a step that ends with an error leaves the flow on the same step,
\* with the same accumulated data, and creates no entry; and an entry is
\* created only by a flow whose general, shifts, start-times and schedule
\* steps have accepted input, in that order.
C27_RejectionKeepsFlow ==
  [][/\ flow'.errors # NoError =>
          /\ flow'.step_id = flow.step_id
          /\ flow'.data = flow.data
          /\ flow'.accepted = flow.accepted
          /\ config_entry' = config_entry
     /\ (config_entry' # config_entry \/ flow'.step_id = "create_entry") =>
          /\ flow'.errors = NoError
          /\ flow'.accepted = StepsInOrder(flow'.handler)]_vars

\* The schedule step has rejected its input after the three steps before it
\* accepted theirs.
C27_Witness ==
  /\ flow.step_id = "schedule"
  /\ flow.errors = "invalid_schedule_digit"
  /\ flow.accepted = <<"user", "shifts", "shift_times">>
  /\ config_entry = NoEntry

----------------------------------------------------------------------------
(* C28 *)

\* C28: right after a construction with a missing or unparseable anchor,
\* the anchor is the construction day: every earlier date resolves to no
\* shift, and the construction day resolves without raising, with pattern
\* index 0 when it has a shift, which it has when the first pattern digit
\* names a configured shift and no day off or workday signal applies.
C28_AnchorFallsBackToToday ==
  (call.op = "__init__" /\ ~_date_parses(call.schedule_start)) =>
     /\ base_date = call.day
     /\ \A d \in Days : d < call.day => get_shift(d) = NoShift
     /\ LET occ == get_shift(call.day) IN
        /\ ~occ.raised
        /\ occ.some => (occ.rotation_index = 0 /\ occ.code = IntOf(pattern[1]))
        /\ (/\ pattern # <<>>
            /\ IsDigit(pattern[1])
            /\ IntOf(pattern[1]) \in 1..Len(start_times)
            /\ ~InManualRange(call.day)
            /\ ~use_workday_sensor) => occ.some

\* The resolver is constructed without an anchor on a later day than the
\* one the previous anchor named: the construction day has the shift of the
\* first pattern digit.
C28_Witness ==
  /\ call.op = "__init__"
  /\ call.schedule_start = <<>>
  /\ call.day >= 2
  /\ base_date = call.day
  /\ get_shift(call.day).some
  /\ get_shift(call.day).rotation_index = 0

----------------------------------------------------------------------------
(* C29 *)

\* The translation file of the language carries a label.
HasLabel(lang) ==
  /\ lang \in DOMAIN translations
  /\ translations[lang].exists
  /\ translations[lang].valid
  /\ translations[lang].shift_label # ""

\* The language the host is configured with: the first subtag, English when
\* none is set.
ConfiguredLanguage == IF language = <<>> THEN "en" ELSE Head(language)

\* C29: the label returned is the one of the configured language's file
\* when it carries one; otherwise, for a language other than English, the
\* one of the English file when it carries one; otherwise "Shift".  The
\* English load happens only after the language's load gave nothing, at most
\* two loads are made, and nothing is raised.
C29_LabelFallback ==
  call.op = "async_get_default_shift_label" =>
     LET lang == ConfiguredLanguage IN
     /\ ~call.result.raised
     /\ call.result.label =
          IF HasLabel(lang) THEN translations[lang].shift_label
          ELSE IF lang # "en" /\ HasLabel("en")
          THEN translations["en"].shift_label
          ELSE "Shift"
     /\ call.result.loads =
          IF ~HasLabel(lang) /\ lang # "en" THEN <<lang, "en">>
          ELSE <<lang>>
     /\ Len(call.result.loads) <= 2

\* The Polish file cannot be read and the English one carries the label:
\* two loads, and the English label is returned.
C29_Witness ==
  /\ call.op = "async_get_default_shift_label"
  /\ language = <<"pl">>
  /\ translations["pl"] = TranslationFile(TRUE, FALSE, "")
  /\ call.result.loads = <<"pl", "en">>
  /\ call.result.label = "Shift"
  /\ HasLabel("en")

----------------------------------------------------------------------------
(* C30 *)

\* C30 as claimed: when a day passes with the configuration and the signals
\* unchanged, and the override suppressed the shift of the day that ended
\* (resolving it on that day gave no shift although its pattern digit is a
\* shift), then on the next day no shift_covering query and no calendar
\* range query returns the occurrence of the day that ended.
C30_SuppressedShiftStaysHidden ==
  [][(/\ now' = now + HoursPerDay
      /\ UNCHANGED <<entry_vars, config_vars, hass_states, hass_attributes>>
      /\ use_workday_sensor
      /\ PlainShift(DateOf(now)).some
      /\ ~get_shift(DateOf(now)).some)
       => /\ \A t \in {i \in Instants : DateOf(i) = DateOf(now) + 1} :
                shift_covering(t)'.some =>
                   DateOf(shift_covering(t)'.start) # DateOf(now)
          /\ \A start \in QueryInstants, end \in QueryInstants :
                \A i \in 1..Len(async_get_events(start, end)') :
                   DateOf(async_get_events(start, end)'[i].start)
                     # DateOf(now)]_vars

----------------------------------------------------------------------------
(* C31 *)

\* An update of the entry-level scheduler has just run.
EntryUpdated ==
  /\ runtime.loaded
  /\ last_refresh.adapter = "entry"
  /\ last_refresh.handler \in {"setup", "timer"}

\* The occurrence of yesterday's date by the schedule alone.
YesterdayOccurrence ==
  LET yesterday == DateOf(now) - 1
      shift_info == get_shift_info(yesterday)
  IN IF shift_info.some THEN _localize_shift_info(shift_info, yesterday)
     ELSE NoShift

\* C31 as claimed: after an update of the entry-level scheduler, when the
\* shift that started yesterday covers now and today's shift does not, the
\* current shift is yesterday's occurrence, whatever today's workday entity
\* reports.
C31_YesterdayShiftStaysCurrent ==
  (/\ EntryUpdated
   /\ Covers(YesterdayOccurrence, now)
   /\ ~Covers(runtime.today_shift, now))
    => runtime.current_shift = YesterdayOccurrence

----------------------------------------------------------------------------
(* C32 *)

\* The dates from today on that have a shift which starts after now.
FutureShiftDates ==
  {d \in DateOf(now)..(MaxDay + 1) :
     /\ WorkshiftActiveSensor_interval(d).some
     /\ WorkshiftActiveSensor_interval(d).start > now}

\* C32 as claimed: while the on-shift sensor is added and off and some date
\* from today on has a shift that starts after now, a timer is pending for
\* the start of the first such shift, however far ahead it lies.
C32_TimerForNextShift ==
  (/\ added["active"]
   /\ ~attr_is_on
   /\ FutureShiftDates # {})
    => LET d == CHOOSE x \in FutureShiftDates :
                  \A y \in FutureShiftDates : x <= y
       IN \E i \in 1..Len(timers["active"]) :
             timers["active"][i] = WorkshiftActiveSensor_interval(d).start

----------------------------------------------------------------------------
(* C33 *)

\* C33: for a shift duration of 1 to 24 hours, the on-shift sensor computes
\* "on" exactly when shift_covering(now) of the resolver built from the same
\* configuration returns an occurrence.
C33_ActiveIffCovering ==
  (/\ call.op = "_is_shift_active_now"
   /\ shift_duration \in 1..24)
    => (call.result <=> call.covering.some)

\* The sensor is on for the overnight shift that started yesterday, with the
\* override enabled.
C33_Witness ==
  /\ call.op = "_is_shift_active_now"
  /\ shift_duration \in 1..24
  /\ use_workday_sensor
  /\ call.result
  /\ DateOf(call.covering.start) = DateOf(now) - 1

----------------------------------------------------------------------------
(* C34 *)

\* C34: with the override enabled, once today's workday entity reads "off"
\* during today's shift and the subscribers are notified, the on-shift
\* sensor is not on while the sensor of today reports 0.
C34_SensorsAgree ==
  (/\ added["active"]
   /\ added["day"]
   /\ hass_states[workday_today] = "off"
   /\ Covers(PlainShift(DateOf(now)), now)
   /\ attr_native_value = NoShift)
    => ~attr_is_on

----------------------------------------------------------------------------
(* C35 *)

\* The calendar entity refreshed at the current instant.
CalendarRefreshed ==
  /\ last_refresh.adapter = "calendar"
  /\ last_refresh.handler \in {"added", "timer"}

----------------------------------------------------------------------------
(* C36 *)

\* The dates from today on, within the search window, whose shift ends after
\* now.
DatesEndingAfterNow ==
  {d \in DateOf(now)..(DateOf(now) + DefaultSearchDays - 1) :
     EndsAfter(get_shift(d), now)}

----------------------------------------------------------------------------
(* C37 *)

\* The start and end of today's, tomorrow's and the current shift of the
\* runtime data, and the next local midnight.
UpdateBoundaries ==
  {Combine(DateOf(now) + 1, 0)}
    \cup UNION {{info.start, info.end} :
                  info \in {x \in {runtime.today_shift,
                                   runtime.tomorrow_shift,
                                   runtime.current_shift} : x.some}}

\* The boundaries more than 5 seconds after now: an instant of the next hour
\* is not when the clock reads the last 5 seconds of its hour.
BoundariesAhead ==
  {t \in UpdateBoundaries : IF late THEN t > now + 1 ELSE t > now}

\* C37: after every run of the entry-level update exactly one update timer
\* is pending, strictly later than now: the earliest boundary more than 5
\* seconds after now, or now + 5 minutes when there is none; a timer is
\* pending as long as the entry is loaded.
C37_OneUpdateTimerAhead ==
  /\ runtime.loaded => Len(timers["entry"]) = 1
  /\ EntryUpdated =>
    /\ Len(timers["entry"]) = 1
    /\ timers["entry"][1] > now
    /\ timers["entry"][1] =
         IF BoundariesAhead = {} THEN now + 1
         ELSE CHOOSE t \in BoundariesAhead : \A u \in BoundariesAhead : t <= u

\* The update ran in the last seconds before midnight with no shift ahead:
\* the timer is armed for now + 5 minutes.
C37_Witness ==
  /\ EntryUpdated
  /\ late
  /\ BoundariesAhead = {}
  /\ timers["entry"] = <<now + 1>>

----------------------------------------------------------------------------
(* C38 *)

\* C38: a successful unload removes the runtime data and leaves no update
\* timer pending; a failed unload leaves the runtime data and the timer as
\* they were; a setup, the first or the one of a reconfiguration, leaves
\* the configuration built from the entry's present data and exactly one
\* pending update timer.
C38_UnloadAndReload ==
  [][
    /\ (runtime.loaded /\ last_refresh' = Refresh("entry", "unloaded")) =>
         /\ runtime' = NoRuntime
         /\ timers'["entry"] = <<>>
         /\ timer_cancel'["entry"] = NoTimer
    /\ (runtime.loaded /\ last_refresh' = Refresh("entry", "unload_failed")) =>
         /\ runtime' = runtime
         /\ timers' = timers
         /\ timer_cancel' = timer_cancel
    /\ (~runtime.loaded /\ last_refresh' = Refresh("entry", "setup")) =>
         /\ runtime'.loaded
         /\ runtime'.config = config_entry
         /\ pattern' = WorkshiftConfigData(config_entry).pattern
         /\ Len(timers'["entry"]) = 1
    /\ ~runtime'.loaded => timers'["entry"] = <<>>
  ]_vars

\* The entry was loaded, its timer was pending, and it has been unloaded.
C38_Witness ==
  /\ last_refresh = Refresh("entry", "unloaded")
  /\ ~runtime.loaded
  /\ timers["entry"] = <<>>
  /\ now > Combine(1, 0)

----------------------------------------------------------------------------
(* C39 *)

\* How often the entity's callback occurs in the list.
Occurrences(callbacks, entity) ==
  Cardinality({i \in 1..Len(callbacks) : callbacks[i] = entity})

\* C39: the listener list holds the callback of every entity that is added
\* to the host once and of no other entity, and an update has called the
\* callback of every such entity exactly once.
C39_ListenersAreLiveEntities ==
  /\ \A entity \in MixinEntities :
        Occurrences(listeners, entity) = IF added[entity] THEN 1 ELSE 0
  /\ last_refresh = Refresh("entry", "timer") =>
        \A entity \in MixinEntities :
           Occurrences(notified, entity) = IF added[entity] THEN 1 ELSE 0

\* An update has notified one entity while another is not added.
C39_Witness ==
  /\ last_refresh = Refresh("entry", "timer")
  /\ Len(notified) = 1
  /\ \E entity \in MixinEntities : ~added[entity]

----------------------------------------------------------------------------
(* C40 *)

\* The entry, as it is written, blocks the date: both dates parse and the
\* date lies between them, in either order; an absent end is the start.
EntryBlocks(entry, day) ==
  LET start == entry[1]
      end == IF entry[2] = NoEnd THEN start ELSE entry[2]
  IN /\ start # BadDate
     /\ end # BadDate
     /\ \/ start <= day /\ day <= end
        \/ end <= day /\ day <= start

\* C40: the resolver constructed from a list of manual day-off entries
\* blocks exactly the dates its well-formed entries block: swapped bounds
\* block the dates of the ordered entry, an entry without an end blocks its
\* start date only, and an entry with a missing or unparseable date blocks
\* nothing and leaves the dates of the other entries as they are.
C40_ManualDaysOffNormalised ==
  call.op = "_parse_manual_days_off" =>
    \A day \in Days :
       _is_manual_day_off(day) <=>
         \E i \in 1..Len(call.entries) : EntryBlocks(call.entries[i], day)

\* An entry with swapped bounds beside one whose start does not parse.
C40_Witness ==
  /\ call.op = "_parse_manual_days_off"
  /\ \E i, j \in 1..Len(call.entries) :
        /\ call.entries[i][1] > call.entries[i][2]
        /\ call.entries[i][2] >= 1
        /\ call.entries[j][1] = BadDate
  /\ Len(manual_days_off) = 1
  /\ manual_days_off[1][1] < manual_days_off[1][2]

====
